---- MODULE Spec2Model ----
(***************************************************************************)
(* Memory Retention & Retrieval Engine of claude-hippocampus.              *)
(*                                                                         *)
(* The relational table `memories` is the function `memories` from ids to  *)
(* rows.  Every command of src/commands is one action that performs all    *)
(* the statements the command issues.  Timestamps are read from the clock  *)
(* `now` (the database's NOW()), which only the action Tick advances, so   *)
(* several commands may run at one and the same instant.                   *)
(***************************************************************************)
EXTENDS Integers, Sequences, FiniteSets, Bags, TLC

\* ------------------------------------------------------------------ bounds
MaxIds == 3
MaxMemAdd == 2
MaxTimeRank == 1
MaxTimePrune == 2
MaxAccess == 1
MaxAccessContext == 2
MaxLimit == 2
MaxDays == 1
MaxMemEngine == 2
MaxRows == 2

\* ------------------------------------------------------- program constants
\* Number of leading characters compared by duplicate detection.
PrefixLen == 100

\* ------------------------------------------------------------ value sets
MemoryTypes == {"convention", "architecture", "gotcha", "api", "learning", "preference"}
Confidences == {"high", "medium", "low"}
Scopes == {"project", "global"}
Tiers == {"project", "global", "both"}

\* Option::None of a project path / SQL NULL of the column project_path.
NoPath == "<null>"
\* Option::None of a scope filter, of a tier and of a keyword.
NoFilter == "<none>"

Ids == 1..MaxIds
\* Option::None of an id / SQL NULL of the column superseded_by.
NoId == 0

\* ------------------------------------------------------------------ text
\* A text is a sequence of characters; characters are one-letter strings.
Min(a, b) == IF a < b THEN a ELSE b

Repeat(ch, n) == [i \in 1..n |-> ch]

\* The letters, lower case and upper case, in the same order.
LowerLetters ==
    <<"a", "b", "c", "d", "e", "f", "g", "h", "i", "j", "k", "l", "m",
      "n", "o", "p", "q", "r", "s", "t", "u", "v", "w", "x", "y", "z">>
UpperLetters ==
    <<"A", "B", "C", "D", "E", "F", "G", "H", "I", "J", "K", "L", "M",
      "N", "O", "P", "Q", "R", "S", "T", "U", "V", "W", "X", "Y", "Z">>

\* char::to_lowercase / SQL LOWER: an upper-case letter becomes its lower-case
\* letter, every other character stays.
LowerChar(ch) ==
    IF \E i \in 1..Len(UpperLetters) : UpperLetters[i] = ch
    THEN LowerLetters[CHOOSE i \in 1..Len(UpperLetters) : UpperLetters[i] = ch]
    ELSE ch

ToLower(s) == [i \in 1..Len(s) |-> LowerChar(s[i])]

\* content.chars().take(100) / SUBSTRING(content, 1, 100)
Take(s, n) == SubSeq(s, 1, Min(n, Len(s)))

\* The contents the commands are called with, by name.  The table stores
\* the name; every predicate on a content is computed on its characters.
TextNames == {"t0", "t1", "t2", "t3", "t4", "t5", "t6", "t7"}

Chars(name) ==
    CASE name = "t0" -> <<>>
      [] name = "t1" -> Repeat("a", PrefixLen)
      [] name = "t2" -> Repeat("A", PrefixLen) \o <<"b">>
      [] name = "t3" -> Repeat("a", PrefixLen - 1) \o <<"b", "b">>
      [] name = "t4" -> <<"a", "b">>
      [] name = "t5" -> <<"A", "B">>
      [] name = "t6" -> <<"a">>
      [] name = "t7" -> <<"c", "a", "t">>

\* The string literals of the enums, character by character.
Spell(word) ==
    CASE word = "convention" -> <<"c", "o", "n", "v", "e", "n", "t", "i", "o", "n">>
      [] word = "architecture" -> <<"a", "r", "c", "h", "i", "t", "e", "c", "t", "u", "r", "e">>
      [] word = "gotcha" -> <<"g", "o", "t", "c", "h", "a">>
      [] word = "api" -> <<"a", "p", "i">>
      [] word = "learning" -> <<"l", "e", "a", "r", "n", "i", "n", "g">>
      [] word = "preference" -> <<"p", "r", "e", "f", "e", "r", "e", "n", "c", "e">>
      [] word = "high" -> <<"h", "i", "g", "h">>
      [] word = "medium" -> <<"m", "e", "d", "i", "u", "m">>
      [] word = "low" -> <<"l", "o", "w">>
      [] word = "project" -> <<"p", "r", "o", "j", "e", "c", "t">>
      [] word = "global" -> <<"g", "l", "o", "b", "a", "l">>
      [] word = "both" -> <<"b", "o", "t", "h">>

\* Result<Self, HippocampusError>
Ok(v) == [ok |-> TRUE, value |-> v]
Err(variant, s) == [ok |-> FALSE, error |-> variant, arg |-> s]

\* MemoryType::as_str
MemoryType_as_str(v) ==
    CASE v = "Convention" -> Spell("convention")
      [] v = "Architecture" -> Spell("architecture")
      [] v = "Gotcha" -> Spell("gotcha")
      [] v = "Api" -> Spell("api")
      [] v = "Learning" -> Spell("learning")
      [] v = "Preference" -> Spell("preference")

\* MemoryType::from_str matching the string as it is written.
MemoryType_from_str_case_sensitive(s) ==
    LET lower == s
    IN  CASE lower = Spell("convention") -> Ok("Convention")
          [] lower = Spell("architecture") -> Ok("Architecture")
          [] lower = Spell("gotcha") -> Ok("Gotcha")
          [] lower = Spell("api") -> Ok("Api")
          [] lower = Spell("learning") -> Ok("Learning")
          [] lower = Spell("preference") -> Ok("Preference")
          [] OTHER -> Err("InvalidMemoryType", s)

\* impl FromStr for MemoryType: the lowercased string is matched against the literals.
MemoryType_from_str(s) ==
    LET lower == ToLower(s)
    IN  CASE lower = Spell("convention") -> Ok("Convention")
          [] lower = Spell("architecture") -> Ok("Architecture")
          [] lower = Spell("gotcha") -> Ok("Gotcha")
          [] lower = Spell("api") -> Ok("Api")
          [] lower = Spell("learning") -> Ok("Learning")
          [] lower = Spell("preference") -> Ok("Preference")
          [] OTHER -> Err("InvalidMemoryType", s)

\* Confidence::as_str
Confidence_as_str(v) ==
    CASE v = "High" -> Spell("high")
      [] v = "Medium" -> Spell("medium")
      [] v = "Low" -> Spell("low")

\* impl FromStr for Confidence: the lowercased string is matched against the literals.
Confidence_from_str(s) ==
    LET lower == ToLower(s)
    IN  CASE lower = Spell("high") -> Ok("High")
          [] lower = Spell("medium") -> Ok("Medium")
          [] lower = Spell("low") -> Ok("Low")
          [] OTHER -> Err("InvalidConfidence", s)

\* Scope::as_str
Scope_as_str(v) ==
    CASE v = "Project" -> Spell("project")
      [] v = "Global" -> Spell("global")

\* impl FromStr for Scope: the lowercased string is matched against the literals.
Scope_from_str(s) ==
    LET lower == ToLower(s)
    IN  CASE lower = Spell("project") -> Ok("Project")
          [] lower = Spell("global") -> Ok("Global")
          [] OTHER -> Err("InvalidScope", s)

\* Tier::as_str
Tier_as_str(v) ==
    CASE v = "Project" -> Spell("project")
      [] v = "Global" -> Spell("global")
      [] v = "Both" -> Spell("both")

\* impl FromStr for Tier: the lowercased string is matched against the literals.
Tier_from_str(s) ==
    LET lower == ToLower(s)
    IN  CASE lower = Spell("project") -> Ok("Project")
          [] lower = Spell("global") -> Ok("Global")
          [] lower = Spell("both") -> Ok("Both")
          [] OTHER -> Err("InvalidTier", s)

\* The enums, and the variants of each.
Enums == {"MemoryType", "Confidence", "Scope", "Tier"}

Variants(enum) ==
    CASE enum = "MemoryType" ->
             {"Convention", "Architecture", "Gotcha", "Api", "Learning", "Preference"}
      [] enum = "Confidence" -> {"High", "Medium", "Low"}
      [] enum = "Scope" -> {"Project", "Global"}
      [] enum = "Tier" -> {"Project", "Global", "Both"}

as_str(enum, v) ==
    CASE enum = "MemoryType" -> MemoryType_as_str(v)
      [] enum = "Confidence" -> Confidence_as_str(v)
      [] enum = "Scope" -> Scope_as_str(v)
      [] enum = "Tier" -> Tier_as_str(v)

from_str(enum, s) ==
    CASE enum = "MemoryType" -> MemoryType_from_str(s)
      [] enum = "Confidence" -> Confidence_from_str(s)
      [] enum = "Scope" -> Scope_from_str(s)
      [] enum = "Tier" -> Tier_from_str(s)

\* ----------------------------------------------------------------- state
VARIABLES
    memories,   \* the table: id -> row
    now,        \* the database clock NOW()
    last,       \* the last command: its arguments and the response it returned
    pre,        \* the table as it was when the last command started
    calls,      \* the commands in flight: caller -> where its command stands
    lifecycle,  \* the tables tool_calls, turns and sessions: id -> created_at
    host        \* what the hooks leave on the host: files, saved responses, extractions

vars == <<memories, now, last, pre, calls, lifecycle, host>>

\* The response of a command that has not run.
NoCommand ==
    [op |-> "none", kind |-> "none", id |-> 0, ids |-> <<>>,
     low_pruned_ids |-> {}, medium_pruned_ids |-> {}, duplicate_ids |-> EmptyBag,
     purged_ids |-> {}, supersedes |-> NoId, found |-> <<>>,
     count |-> 0, total |-> 0, mtype |-> NoFilter, content |-> NoFilter, query |-> NoFilter,
     tier |-> NoFilter, path |-> NoPath, limit |-> 0,
     low_days |-> 0, medium_days |-> 0, rerun |-> FALSE, first_removed |-> 0, at |-> 0]

\* The tables of the session subsystem that the lifecycle prune acts on.
Categories == {"tool_calls", "turns", "sessions"}

\* The processes that run a command while another one runs.
Callers == {"c1", "c2"}

\* A caller that is running no command.
NoCall ==
    [pc |-> "idle", op |-> "none", kind |-> "none", id |-> NoId, mtype |-> NoFilter,
     content |-> NoFilter, tags |-> <<>>, confidence |-> NoFilter, tier |-> NoFilter,
     path |-> NoPath, query |-> NoFilter, limit |-> 0, read |-> <<>>, marked |-> "none",
     ids |-> <<>>, selected |-> << >>, todo |-> EmptyBag, removed |-> << >>]

\* The host of the hooks: the files that exist, with their contents; the
\* assistant response saved for a turn by the command update-turn; the
\* extraction processes that were spawned, by their context.
\* Of the tables sessions, conversation_turns and tool_calls it holds the
\* columns the hooks use (`lifecycle` holds the ages of their rows).
NoHost ==
    [files |-> << >>, responses |-> << >>, extractions |-> {},
     sessions |-> << >>, turns |-> << >>, tool_calls |-> <<>>]


Init ==
    /\ memories = << >>
    /\ now = 0
    /\ last = NoCommand
    /\ pre = << >>
    /\ calls = [p \in Callers |-> NoCall]
    /\ lifecycle = [c \in Categories |-> << >>]
    /\ host = NoHost

\* v.as_str() of a variant, and the parse of that string.
AsStr(enum, v) ==
    /\ last' = [NoCommand EXCEPT !.at = now, !.op = "as_str", !.kind = "success", !.mtype = enum,
                   !.found = <<v, as_str(enum, v), from_str(enum, as_str(enum, v))>>]
    /\ UNCHANGED <<memories, now, pre, calls, lifecycle, host>>

\* s.parse::<Enum>() of a string.
Parse(enum, s) ==
    /\ last' = [NoCommand EXCEPT !.at = now, !.op = "parse", !.mtype = enum,
                   !.kind = IF from_str(enum, s).ok THEN "success" ELSE "error",
                   !.found = <<s, from_str(enum, s)>>]
    /\ UNCHANGED <<memories, now, pre, calls, lifecycle, host>>


\* ----------------------------------------------------------------- summary
\* The characters that take more than one byte in UTF-8, by code point.
\* Every other character of the model is ASCII and takes one byte.
len_utf8(ch) ==
    CASE ch = "U+00E9" -> 2
      [] ch = "U+20AC" -> 3
      [] ch = "U+1F600" -> 4
      [] OTHER -> 1

\* The number of bytes of the characters i..j of s, by halves.
RECURSIVE Bytes(_, _, _)
Bytes(s, i, j) ==
    IF i > j THEN 0
    ELSE IF i = j THEN len_utf8(s[i])
    ELSE LET mid == (i + j) \div 2
         IN  Bytes(s, i, mid) + Bytes(s, mid + 1, j)

\* str::len: the number of bytes of the UTF-8 encoding.
str_len(s) == Bytes(s, 1, Len(s))

\* The outcome of an expression that may panic.
Returned(v) == [panic |-> FALSE, value |-> v]
Panicked == [panic |-> TRUE, value |-> <<>>]

\* The greatest k in lo..hi such that the first k characters of s take at
\* most `index` bytes, by bisection (the first lo characters do).
RECURSIVE CharsWithin(_, _, _, _)
CharsWithin(s, lo, hi, index) ==
    IF lo = hi THEN lo
    ELSE LET mid == (lo + hi + 1) \div 2
         IN  IF Bytes(s, 1, mid) <= index
             THEN CharsWithin(s, mid, hi, index)
             ELSE CharsWithin(s, lo, mid - 1, index)

\* &s[..index]: the characters encoded by the first `index` bytes; panics
\* when `index` is past the end of s or inside a character
\* (str::is_char_boundary is false).
slice_to(s, index) ==
    LET k == CharsWithin(s, 0, Len(s), index)
    IN  IF Bytes(s, 1, k) = index THEN Returned(SubSeq(s, 1, k)) ELSE Panicked

\* The literal "..." of format!("{}...", _).
Ellipsis == <<".", ".", ".">>

\* Memory::to_summary keeping the first 100 bytes and adding no ellipsis.
to_summary_no_ellipsis(content) ==
    IF str_len(content) > 100
    THEN slice_to(content, 100)
    ELSE Returned(content)

\* Memory::to_summary, field summary.
to_summary(content) ==
    IF str_len(content) > 100
    THEN LET head == slice_to(content, 97)
         IN  IF head.panic THEN Panicked ELSE Returned(head.value \o Ellipsis)
    ELSE Returned(content)

\* From<Memory> for MemorySearchItem, field summary.
MemorySearchItem_from(content) ==
    IF str_len(content) > 100
    THEN LET head == slice_to(content, 97)
         IN  IF head.panic THEN Panicked ELSE Returned(head.value \o Ellipsis)
    ELSE Returned(content)

\* find_duplicate, field summary of DuplicateInfo, which add_memory passes
\* on as existing_summary of AddMemoryResult::Duplicate.
DuplicateInfo_summary(content) ==
    IF str_len(content) > 100
    THEN LET head == slice_to(content, 97)
         IN  IF head.panic THEN Panicked ELSE Returned(head.value \o Ellipsis)
    ELSE Returned(content)

\* The summary of a memory with the given content is derived for a list.
ToSummary(content) ==
    /\ memories' = memories
    /\ LET summary == to_summary(content)
       IN  last' = [NoCommand EXCEPT !.at = now, !.op = "to_summary",
                       !.kind = IF summary.panic THEN "panic" ELSE "success",
                       !.found = <<content, summary>>]
    /\ UNCHANGED <<now, pre, calls, lifecycle, host>>

\* A memory with the given content becomes an item of a search result.
SearchItem(content) ==
    /\ memories' = memories
    /\ LET summary == MemorySearchItem_from(content)
       IN  last' = [NoCommand EXCEPT !.at = now, !.op = "search_item",
                       !.kind = IF summary.panic THEN "panic" ELSE "success",
                       !.found = <<content, summary>>]
    /\ UNCHANGED <<now, pre, calls, lifecycle, host>>

\* A memory with the given content is reported as the duplicate of an add.
DuplicateSummary(content) ==
    /\ memories' = memories
    /\ LET summary == DuplicateInfo_summary(content)
       IN  last' = [NoCommand EXCEPT !.at = now, !.op = "duplicate_summary",
                       !.kind = IF summary.panic THEN "panic" ELSE "duplicate",
                       !.found = <<content, summary>>]
    /\ UNCHANGED <<now, pre, calls, lifecycle, host>>


\* --------------------------------------------------------------- stop hook
\* A path is the sequence of its components, "/" between them.  The host has
\* the directory /tmp and no directory below it.
Directories == {<<"/", "tmp">>}

\* The last index of a "/" in a path.
LastSeparator(path) ==
    CHOOSE i \in 1..Len(path) : path[i] = "/" /\ \A j \in (i + 1)..Len(path) : path[j] # "/"

\* Path::parent
Parent(path) == SubSeq(path, 1, LastSeparator(path) - 1)

\* Path::exists
Exists(files, path) == path \in DOMAIN files

\* fs::write: creates or replaces the file when its directory exists, and
\* fails otherwise; the caller drops the error.
fs_write(files, path, contents) ==
    IF Parent(path) \in Directories
    THEN [q \in DOMAIN files \cup {path} |-> IF q = path THEN contents ELSE files[q]]
    ELSE files

\* fs::remove_file, the error of a missing file dropped.
fs_remove_file(files, path) == [q \in DOMAIN files \ {path} |-> files[q]]

\* Session ids as the host process gives them, character by character.
\* input.session_id.unwrap_or("unknown")
UnknownSession == <<"u", "n", "k", "n", "o", "w", "n">>
NoSession == <<>>
claude_session_id(session_id) == IF session_id = NoSession THEN UnknownSession ELSE session_id

\* get_marker_file of the stop hook.
get_marker_file(session) ==
    <<"/", "tmp", "/", "hippocampus-brain-cells-extract-">> \o session

\* str::trim, for the blank " ".
RECURSIVE TrimStart(_)
TrimStart(s) == IF s # <<>> /\ Head(s) = " " THEN TrimStart(Tail(s)) ELSE s
RECURSIVE TrimEnd(_)
TrimEnd(s) == IF s # <<>> /\ s[Len(s)] = " " THEN TrimEnd(SubSeq(s, 1, Len(s) - 1)) ELSE s
Trim(s) == TrimEnd(TrimStart(s))

\* skip_patterns of should_extract.
SkipPatterns ==
    {<<"y", "e", "s">>, <<"n", "o">>, <<"o", "k">>, <<"o", "k", "a", "y">>, <<"s", "u", "r", "e">>,
     <<"t", "h", "a", "n", "k", "s">>, <<"g", "o", "t", " ", "i", "t">>, <<"d", "o", "n", "e">>,
     <<"c", "o", "m", "m", "i", "t">>, <<"p", "u", "s", "h">>, <<"p", "u", "l", "l">>,
     <<"t", "e", "s", "t">>, <<"b", "u", "i", "l", "d">>, <<"r", "u", "n">>, <<"h", "e", "l", "p">>}

\* should_extract: is the turn substantive.
should_extract(user_msg, assistant_response) ==
    LET user_trimmed == ToLower(Trim(user_msg))
    IN  IF str_len(user_msg) < 20 /\ str_len(assistant_response) < 100 THEN FALSE
        ELSE IF user_trimmed \in SkipPatterns THEN FALSE
        ELSE IF user_trimmed # <<>> /\ Head(user_trimmed) = "/" THEN FALSE
        ELSE TRUE

\* Option<String> of a message: None and Some(text).
NoMessage == [some |-> FALSE, text |-> <<>>]
Message(text) == [some |-> TRUE, text |-> text]

\* Option::None of a turn id.
NoTurn == "<no turn>"

\* A transcript is given by the last user message and the last assistant
\* message that extract_last_messages finds in it; a file that is missing or
\* cannot be read counts as the empty transcript.
NoTranscript == [path |-> FALSE, user |-> NoMessage, assistant |-> NoMessage]
Transcript(user_msg, assistant_msg) == [path |-> TRUE, user |-> user_msg, assistant |-> assistant_msg]

\* HookOutput::approve and HookOutput::block.
NoReason == "<no reason>"
approve == [decision |-> "approve", reason |-> NoReason]
block(reason) == [decision |-> "block", reason |-> reason]

\* The commands that handle_stop runs: update-turn of claude-hippocampus,
\* and the shell of the extraction.  A command that fails cannot be run or
\* exits with an error.
StopCommands == {"update-turn", "sh"}

\* What one run of handle_stop did, for the response of the hook.
StopRun(session_id, extraction, transcript, turn_id, failing, existed, run) ==
    [session_id |-> session_id, extraction |-> extraction, transcript |-> transcript,
     turn_id |-> turn_id, failing |-> failing, marker_existed |-> existed,
     read_transcript |-> run.read, updated_turn |-> run.updated, spawned |-> run.spawned,
     result |-> run.result, before |-> host]

\* handle_stop returning at once.
StopSkips(h) ==
    [host |-> h, read |-> FALSE, updated |-> FALSE, spawned |-> FALSE, result |-> Ok(approve)]

\* handle_stop past the check of the marker: the marker is written, the
\* transcript is read, the response is saved to the current turn when both
\* messages are there, and an extraction is spawned when the turn is
\* substantive.  A command that fails is logged and leaves nothing behind.
StopProcesses(h, session_id, transcript, turn_id, failing) ==
    LET marker_file == get_marker_file(claude_session_id(session_id))
        both == transcript.user.some /\ transcript.assistant.some
        update == both /\ turn_id # NoTurn
        spawn == both /\ should_extract(transcript.user.text, transcript.assistant.text)
    IN  [host |->
            [h EXCEPT
                !.files = fs_write(h.files, marker_file, "1"),
                !.responses =
                    IF update /\ "update-turn" \notin failing
                    THEN [t \in DOMAIN h.responses \cup {turn_id} |->
                            IF t = turn_id THEN transcript.assistant.text ELSE h.responses[t]]
                    ELSE h.responses,
                !.extractions =
                    IF spawn /\ "sh" \notin failing
                    THEN h.extractions \cup
                         {<<transcript.user.text, transcript.assistant.text, claude_session_id(session_id), turn_id>>}
                    ELSE h.extractions],
         read |-> transcript.path, updated |-> update, spawned |-> spawn,
         result |-> Ok(approve)]

\* handle_stop without the check of the marker.
handle_stop_unchecked(h, session_id, extraction, transcript, turn_id, failing) ==
    IF extraction
    THEN StopSkips(h)
    ELSE StopProcesses(h, session_id, transcript, turn_id, failing)

\* handle_stop blocking with the error of a turn update that failed.
handle_stop_blocks_on_failed_update(h, session_id, extraction, transcript, turn_id, failing) ==
    LET marker_file == get_marker_file(claude_session_id(session_id))
        run == StopProcesses(h, session_id, transcript, turn_id, {})
    IN  IF extraction THEN StopSkips(h)
        ELSE IF Exists(h.files, marker_file) THEN StopSkips(h)
        ELSE IF run.updated /\ "update-turn" \in failing
        THEN [host |-> [h EXCEPT !.files = run.host.files], read |-> run.read, updated |-> TRUE,
              spawned |-> FALSE, result |-> Ok(block("update-turn"))]
        ELSE StopProcesses(h, session_id, transcript, turn_id, failing)

\* handle_stop: the host after the call, and what the call did.  The
\* extraction instance returns at once; so does the call that finds the
\* marker.
handle_stop(h, session_id, extraction, transcript, turn_id, failing) ==
    LET marker_file == get_marker_file(claude_session_id(session_id))
    IN  IF extraction THEN StopSkips(h)
        ELSE IF Exists(h.files, marker_file) THEN StopSkips(h)
        ELSE StopProcesses(h, session_id, transcript, turn_id, failing)

\* The stop hook runs.  `rerun` tells that the command before it was the
\* stop hook with the same input.
HandleStop(session_id, extraction, transcript, turn_id, failing) ==
    LET run == handle_stop(host, session_id, extraction, transcript, turn_id, failing)
        existed == Exists(host.files, get_marker_file(claude_session_id(session_id)))
    IN  /\ host' = run.host
        /\ last' = [NoCommand EXCEPT !.at = now, !.op = "stop",
                       !.kind = IF run.result.ok THEN run.result.value.decision ELSE "error",
                       !.rerun = /\ last.op = "stop"
                                 /\ last.found[1].session_id = session_id
                                 /\ last.found[1].extraction = extraction
                                 /\ last.found[1].transcript = transcript
                                 /\ last.found[1].turn_id = turn_id
                                 /\ last.found[1].failing = failing,
                       !.found = <<StopRun(session_id, extraction, transcript, turn_id, failing,
                                           existed, run)>>]
        /\ UNCHANGED <<memories, now, pre, calls, lifecycle>>

\* The first step not looking at the marker.
StopCheckMarker_unchecked(p, session_id, transcript, turn_id) ==
    /\ calls[p].pc = "idle"
    /\ calls' = [calls EXCEPT ![p] =
                    [NoCall EXCEPT !.op = "stop", !.read = <<session_id, transcript, turn_id>>,
                        !.pc = "passed"]]
    /\ UNCHANGED <<memories, now, last, pre, lifecycle, host>>

\* handle_stop as the steps it takes, for a process that runs while another
\* one does.  First step: Path::new(&marker_file).exists().  With the marker
\* the hook returns; without it the hook goes on, and nothing is locked.
\* The call keeps its input in `read`.
StopCheckMarker(p, session_id, transcript, turn_id) ==
    /\ calls[p].pc = "idle"
    /\ calls' = [calls EXCEPT ![p] =
                    [NoCall EXCEPT !.op = "stop", !.read = <<session_id, transcript, turn_id>>,
                        !.pc = IF Exists(host.files, get_marker_file(claude_session_id(session_id)))
                               THEN "done" ELSE "passed",
                        !.kind = IF Exists(host.files, get_marker_file(claude_session_id(session_id)))
                                 THEN "skipped" ELSE "none"]]
    /\ UNCHANGED <<memories, now, last, pre, lifecycle, host>>

\* The steps after the check: the marker is written, the transcript is read,
\* the turn is updated and the extraction is spawned.
StopProcess(p) ==
    /\ calls[p].pc = "passed"
    /\ LET input == calls[p].read
           run == StopProcesses(host, input[1], input[2], input[3], {})
       IN  /\ host' = run.host
           /\ calls' = [calls EXCEPT ![p] =
                           [@ EXCEPT !.pc = "done",
                                     !.kind = IF run.updated \/ run.spawned THEN "processed" ELSE "approve"]]
    /\ UNCHANGED <<memories, now, last, pre, lifecycle>>

\* The marker of a session is removed, as the end of the session and the
\* tests of the hook do.
CleanupMarker(session_id) ==
    /\ host' = [host EXCEPT !.files = fs_remove_file(host.files, get_marker_file(session_id))]
    /\ last' = [NoCommand EXCEPT !.at = now, !.op = "cleanup_marker", !.kind = "success",
                   !.found = <<session_id>>]
    /\ UNCHANGED <<memories, now, pre, calls, lifecycle>>


\* ----------------------------------------------------------- session state
\* get_session_state_path of a session id, and the legacy path of all.
get_session_state_path(session) ==
    IF session # <<>>
    THEN <<"/", "tmp", "/", "hippocampus-session-">> \o session \o <<".json">>
    ELSE <<"/", "tmp", "/", "hippocampus-session-state.json">>
LegacySessionStatePath == <<"/", "tmp", "/", "hippocampus-session-state.json">>

\* Option::None of a database session id and of a session state.
NoDbSession == "<no session>"
NoState ==
    [some |-> FALSE, session_id |-> NoDbSession, claude_session_id |-> <<>>, turn_number |-> 0,
     current_turn_id |-> NoTurn]
SessionState(session_id, claude, turn_number, current_turn_id) ==
    [some |-> TRUE, session_id |-> session_id, claude_session_id |-> claude,
     turn_number |-> turn_number, current_turn_id |-> current_turn_id]

\* load_session_state keeping to the file of the session.
load_session_state_own_file(files, session) ==
    IF session # <<>> /\ Exists(files, get_session_state_path(session))
    THEN files[get_session_state_path(session)]
    ELSE NoState

\* load_session_state: the file of the session when there is one, and
\* otherwise the legacy file, whoever wrote it.
load_session_state(files, session) ==
    IF session # <<>> /\ Exists(files, get_session_state_path(session))
    THEN files[get_session_state_path(session)]
    ELSE IF Exists(files, LegacySessionStatePath)
    THEN files[LegacySessionStatePath]
    ELSE NoState

\* save_session_state: the file of the session, then the legacy file; the
\* first write that fails ends it with the error.
save_session_state(files, state) ==
    LET own == get_session_state_path(state.claude_session_id)
    IN  IF state.claude_session_id # <<>> /\ Parent(own) \notin Directories
        THEN [ok |-> FALSE, files |-> files]
        ELSE [ok |-> TRUE,
              files |-> fs_write(IF state.claude_session_id # <<>>
                                 THEN fs_write(files, own, state)
                                 ELSE files,
                                 LegacySessionStatePath, state)]

\* clear_session_state: the file of the session and the legacy file.
clear_session_state(files, session) ==
    fs_remove_file(IF session # <<>> THEN fs_remove_file(files, get_session_state_path(session)) ELSE files,
                   LegacySessionStatePath)

\* ------------------------------------------------- user-prompt-submit hook
\* get_marker_file of the user-prompt-submit hook naming the marker of the
\* stop hook.
prompt_get_marker_file_of_stop(session) ==
    <<"/", "tmp", "/", "hippocampus-brain-cells-extract-">> \o session

\* get_marker_file of the user-prompt-submit hook.
prompt_get_marker_file(session) == <<"/", "tmp", "/", "claude-memory-extract-">> \o session

\* find_session_by_claude_id: the rows the SELECT matches.
find_session_by_claude_id(sessions, session) ==
    {d \in DOMAIN sessions : sessions[d].claude_session_id = session}

\* get_next_turn_number: MAX(turn_number) + 1 of the session, 1 without turns.
get_next_turn_number(turns, db_session) ==
    LET numbers == {turns[t].turn_number : t \in {u \in DOMAIN turns : turns[u].session_id = db_session}}
    IN  IF numbers = {} THEN 1 ELSE (CHOOSE n \in numbers : \A m \in numbers : m <= n) + 1

\* create_turn: INSERT INTO conversation_turns.
create_turn(turns, turn_id, db_session, turn_number, user_prompt) ==
    [t \in DOMAIN turns \cup {turn_id} |->
        IF t = turn_id
        THEN [session_id |-> db_session, turn_number |-> turn_number, user_prompt |-> user_prompt]
        ELSE turns[t]]

\* The first word of a text: split_whitespace().next().
RECURSIVE FirstWord(_)
FirstWord(s) == IF s = <<>> \/ Head(s) = " " THEN <<>> ELSE <<Head(s)>> \o FirstWord(Tail(s))

\* should_search_memory: is the prompt worth a memory search.
should_search_memory(prompt) ==
    LET trimmed == ToLower(Trim(prompt))
    IN  IF str_len(prompt) < 15 THEN FALSE
        ELSE IF trimmed \in SkipPatterns \cup {<<"t", "h", "a", "n", "k", " ", "y", "o", "u">>} THEN FALSE
        ELSE IF trimmed # <<>> /\ Head(trimmed) = "/"
                /\ FirstWord(trimmed) \in {<<"/", "c", "o", "m", "m", "i", "t">>, <<"/", "t", "e", "s", "t">>,
                                           <<"/", "r", "e", "v", "i", "e", "w">>, <<"/", "h", "e", "l", "p">>,
                                           <<"/", "c", "l", "e", "a", "r">>}
        THEN FALSE
        ELSE TRUE

\* What one run of handle_user_prompt_submit did.
PromptRun(session_id, extraction, prompt, turn_id, cleared, search, result) ==
    [session_id |-> session_id, extraction |-> extraction, prompt |-> prompt, turn_id |-> turn_id,
     cleared |-> cleared, search |-> search, result |-> result, before |-> host]

\* handle_user_prompt_submit.  An extraction instance and an empty prompt
\* return at once.  Otherwise, when the session is in the database, a turn
\* with the next number is created for it under the id `turn_id` and the
\* session state is saved; then the marker file of this hook is removed and
\* the instructions are printed.  The save that fails ends the hook with
\* the error.
HandleUserPromptSubmit(session_id, extraction, prompt, turn_id) ==
    LET found == find_session_by_claude_id(host.sessions, session_id)
        Done(h, turn, cleared, result) ==
            /\ host' = h
            /\ last' = [NoCommand EXCEPT !.at = now, !.op = "user_prompt_submit",
                           !.kind = IF result.ok THEN result.value.decision ELSE "error",
                           !.found = <<PromptRun(session_id, extraction, prompt, turn, cleared,
                                                 cleared /\ should_search_memory(prompt.text), result)>>]
    IN  /\ IF extraction \/ ~prompt.some \/ prompt.text = <<>>
           THEN turn_id = NoTurn /\ Done(host, NoTurn, FALSE, Ok(approve))
           ELSE IF found = {}
           THEN /\ turn_id = NoTurn
                /\ Done([host EXCEPT !.files = fs_remove_file(@, prompt_get_marker_file(session_id))],
                        NoTurn, TRUE, Ok(approve))
           ELSE \E d \in found :
                  LET number == get_next_turn_number(host.turns, d)
                      created == [host EXCEPT !.turns = create_turn(@, turn_id, d, number, prompt.text)]
                      saved == save_session_state(host.files, SessionState(d, session_id, number, turn_id))
                  IN  /\ turn_id # NoTurn
                      /\ turn_id \notin DOMAIN host.turns
                      /\ IF saved.ok
                         THEN Done([created EXCEPT
                                       !.files = fs_remove_file(saved.files, prompt_get_marker_file(session_id))],
                                   turn_id, TRUE, Ok(approve))
                         ELSE Done(created, turn_id, FALSE, Err("Io", <<>>))
        /\ UNCHANGED <<memories, now, pre, calls, lifecycle>>

\* The stop hook of a session runs with the current turn that the session
\* state gives it.
HandleStopOfSession(session_id, extraction, transcript, failing) ==
    HandleStop(session_id, extraction, transcript,
               load_session_state(host.files, claude_session_id(session_id)).current_turn_id, failing)


\* ------------------------------------------------------ duplicate detection
\* LOWER(SUBSTRING(content, 1, 100)) and content.chars().take(100).to_lowercase()
Prefix(name) == ToLower(Take(Chars(name), PrefixLen))

\* The prefix of every text, computed once.
PrefixTable ==
    [t0 |-> Prefix("t0"), t1 |-> Prefix("t1"), t2 |-> Prefix("t2"), t3 |-> Prefix("t3"), t4 |-> Prefix("t4"),
     t5 |-> Prefix("t5"), t6 |-> Prefix("t6"), t7 |-> Prefix("t7")]

ContentPrefix(content) == PrefixTable[content]

\* find_duplicate comparing the prefixes as they are stored, without LOWER.
find_duplicate_case_sensitive(mems, memory_type, content) ==
    {id \in DOMAIN mems :
        /\ mems[id].type = memory_type
        /\ Take(Chars(mems[id].content), PrefixLen) = Take(Chars(content), PrefixLen)}

\* The rows the SELECT of find_duplicate matches; LIMIT 1 returns any one.
find_duplicate(mems, memory_type, content) ==
    {id \in DOMAIN mems :
        /\ mems[id].type = memory_type
        /\ ContentPrefix(mems[id].content) = ContentPrefix(content)}

\* ------------------------------------------------------------------ writes
\* INSERT INTO memories (...) RETURNING id; the other columns take their
\* column defaults.
insert_memory_from(mems, id, memory_type, scope, project_path, content, tags, confidence, source_session_id, source_turn_id) ==
    [i \in DOMAIN mems \cup {id} |->
        IF i = id
        THEN [type |-> memory_type, scope |-> scope, project_path |-> project_path,
              content |-> content, tags |-> tags, confidence |-> confidence,
              source_session_id |-> source_session_id, source_turn_id |-> source_turn_id,
              created_at |-> now, updated_at |-> now,
              accessed_at |-> <<>>, access_count |-> 0,
              superseded_by |-> NoId, superseded_at |-> <<>>, is_active |-> TRUE]
        ELSE mems[i]]

\* insert_memory of a caller that gives no source ids.
insert_memory(mems, id, memory_type, scope, project_path, content, tags, confidence) ==
    insert_memory_from(mems, id, memory_type, scope, project_path, content, tags, confidence,
                       NoDbSession, NoTurn)

\* tier_to_scope resolving the tier both to the global scope.
tier_to_scope_both_global(tier) == IF tier = "project" THEN "project" ELSE "global"

\* Tier -> Scope of a write.
tier_to_scope(tier) == IF tier = "global" THEN "global" ELSE "project"

\* add_memory: duplicate check, scope resolution, insert.
AddMemoryFrom(id, memory_type, content, tags, confidence, tier, project_path, source_session_id, source_turn_id) ==
    /\ id \notin DOMAIN memories
    /\ LET dups == find_duplicate(memories, memory_type, content)
           scope == tier_to_scope(tier)
           path == IF scope = "project" THEN project_path ELSE NoPath
           args == [NoCommand EXCEPT !.at = now, !.op = "add", !.mtype = memory_type,
                       !.content = content, !.tier = tier, !.path = project_path]
       IN  IF dups # {}
           THEN /\ \E d \in dups : last' = [args EXCEPT !.kind = "duplicate", !.id = d]
                /\ memories' = memories
           ELSE /\ memories' = insert_memory_from(memories, id, memory_type, scope, path,
                                                  content, tags, confidence,
                                                  source_session_id, source_turn_id)
                /\ last' = [args EXCEPT !.kind = "success", !.id = id]
    /\ pre' = memories
    /\ now' = now
    /\ calls' = calls
    /\ lifecycle' = lifecycle
    /\ host' = host

\* add_memory with options that give no source ids.
AddMemory(id, memory_type, content, tags, confidence, tier, project_path) ==
    AddMemoryFrom(id, memory_type, content, tags, confidence, tier, project_path, NoDbSession, NoTurn)

\* update_memory also writing is_active = TRUE.
\* add_memory as the statements it issues, for a caller that runs while
\* others do.  First statement: the duplicate check.  When it finds a memory
\* the command returns Duplicate; when it finds none the command goes on, and
\* nothing is locked.
AddCheck(p, memory_type, content, tags, confidence, tier, project_path) ==
    /\ calls[p].pc = "idle"
    /\ LET dups == find_duplicate(memories, memory_type, content)
           call == [NoCall EXCEPT !.op = "add", !.mtype = memory_type, !.content = content,
                       !.tags = tags, !.confidence = confidence, !.tier = tier,
                       !.path = project_path]
       IN  IF dups # {}
           THEN \E d \in dups :
                    calls' = [calls EXCEPT ![p] = [call EXCEPT !.pc = "done",
                                                      !.kind = "duplicate", !.id = d]]
           ELSE calls' = [calls EXCEPT ![p] = [call EXCEPT !.pc = "checked"]]
    /\ UNCHANGED <<memories, now, last, pre, lifecycle, host>>

\* The second statement looking for a duplicate once more before it inserts.
AddInsert_rechecks(p, id) ==
    /\ calls[p].pc = "checked"
    /\ id \notin DOMAIN memories
    /\ LET call == calls[p]
           dups == find_duplicate(memories, call.mtype, call.content)
           scope == tier_to_scope(call.tier)
           path == IF scope = "project" THEN call.path ELSE NoPath
       IN  IF dups # {}
           THEN /\ \E d \in dups :
                       calls' = [calls EXCEPT ![p] = [call EXCEPT !.pc = "done",
                                                         !.kind = "duplicate", !.id = d]]
                /\ memories' = memories
           ELSE /\ memories' = insert_memory(memories, id, call.mtype, scope, path,
                                             call.content, call.tags, call.confidence)
                /\ calls' = [calls EXCEPT ![p] = [call EXCEPT !.pc = "done",
                                                     !.kind = "success", !.id = id]]
    /\ UNCHANGED <<now, last, pre, lifecycle, host>>

\* Second statement: the INSERT, of a command whose check found nothing.  It
\* looks at nothing that was inserted since.
AddInsert(p, id) ==
    /\ calls[p].pc = "checked"
    /\ id \notin DOMAIN memories
    /\ LET call == calls[p]
           scope == tier_to_scope(call.tier)
           path == IF scope = "project" THEN call.path ELSE NoPath
       IN  /\ memories' = insert_memory(memories, id, call.mtype, scope, path,
                                        call.content, call.tags, call.confidence)
           /\ calls' = [calls EXCEPT ![p] = [call EXCEPT !.pc = "done",
                                                !.kind = "success", !.id = id]]
    /\ UNCHANGED <<now, last, pre, lifecycle, host>>


update_memory_reactivates(mems, id, content, scope, project_path) ==
    [i \in DOMAIN mems |->
        IF i # id THEN mems[i]
        ELSE [mems[i] EXCEPT !.content = content, !.updated_at = now, !.is_active = TRUE]]

\* update_memory also writing access_count = 0.
update_memory_resets_access(mems, id, content, scope, project_path) ==
    [i \in DOMAIN mems |->
        IF i # id THEN mems[i]
        ELSE [mems[i] EXCEPT !.content = content, !.updated_at = now, !.access_count = 0]]

\* db::update_memory: the UPDATE statement; TRUE iff rows_affected > 0.
update_memory(mems, id, content, scope, project_path) ==
    [i \in DOMAIN mems |->
        IF i # id THEN mems[i]
        ELSE IF scope # NoFilter
             THEN [mems[i] EXCEPT !.content = content, !.scope = scope,
                                  !.project_path = project_path, !.updated_at = now]
             ELSE [mems[i] EXCEPT !.content = content, !.updated_at = now]]

\* commands::update_memory
UpdateMemory(id, content, tier, project_path) ==
    /\ LET scope == IF tier = NoFilter THEN NoFilter ELSE tier_to_scope(tier)
           args == [NoCommand EXCEPT !.at = now, !.op = "update", !.id = id, !.content = content,
                       !.tier = tier, !.path = project_path]
       IN  /\ memories' = update_memory(memories, id, content, scope, project_path)
           /\ last' = [args EXCEPT !.kind = IF id \in DOMAIN memories
                                             THEN "success" ELSE "not_found"]
    /\ pre' = memories
    /\ now' = now
    /\ calls' = calls
    /\ lifecycle' = lifecycle
    /\ host' = host

\* db::delete_memory
delete_memory(mems, id) == [i \in DOMAIN mems \ {id} |-> mems[i]]

\* delete_memory answering success whether or not a row was deleted.
DeleteMemory_silent(id) ==
    /\ memories' = delete_memory(memories, id)
    /\ last' = [NoCommand EXCEPT !.at = now, !.op = "delete", !.id = id, !.kind = "success"]
    /\ pre' = memories
    /\ now' = now
    /\ calls' = calls
    /\ lifecycle' = lifecycle
    /\ host' = host

\* commands::delete_memory: a response of kind not_found is the ErrorResponse
\* "Memory not found: <id>".
DeleteMemory(id) ==
    /\ memories' = delete_memory(memories, id)
    /\ last' = [NoCommand EXCEPT !.at = now, !.op = "delete", !.id = id,
                   !.kind = IF id \in DOMAIN memories THEN "success" ELSE "not_found"]
    /\ pre' = memories
    /\ now' = now
    /\ calls' = calls
    /\ lifecycle' = lifecycle
    /\ host' = host

\* get_memory selecting among the active memories only.
get_memory_active_only(mems, id) ==
    IF id \in DOMAIN mems /\ mems[id].is_active THEN <<mems[id]>> ELSE <<>>

\* db::get_memory: the row with the id, if there is one.
get_memory(mems, id) == IF id \in DOMAIN mems THEN <<mems[id]>> ELSE <<>>

\* get_memory marking the memory it returns as accessed.
GetMemory_marks_accessed(id) ==
    /\ last' = [NoCommand EXCEPT !.at = now, !.op = "get", !.id = id,
                   !.found = get_memory(memories, id),
                   !.kind = IF id \in DOMAIN memories THEN "success" ELSE "not_found"]
    /\ memories' = [i \in DOMAIN memories |->
                       IF i = id
                       THEN [memories[i] EXCEPT !.accessed_at = <<now>>, !.access_count = @ + 1]
                       ELSE memories[i]]
    /\ pre' = memories
    /\ now' = now
    /\ calls' = calls
    /\ lifecycle' = lifecycle
    /\ host' = host

\* commands::get_memory
GetMemory(id) ==
    LET row == get_memory(memories, id)
    IN  /\ last' = [NoCommand EXCEPT !.at = now, !.op = "get", !.id = id, !.found = row,
                       !.kind = IF row # <<>> THEN "success" ELSE "not_found"]
        /\ memories' = memories
        /\ pre' = memories
        /\ now' = now
        /\ calls' = calls
        /\ lifecycle' = lifecycle
        /\ host' = host

\* supersede_memory: the old memory is marked as replaced by the new one; its
\* other columns stay.  An id that is not in the table updates no row.
supersede_memory(mems, old_id, new_id) ==
    [i \in DOMAIN mems |->
        IF i = old_id
        THEN [mems[i] EXCEPT !.superseded_by = new_id, !.superseded_at = <<now>>,
                             !.is_active = FALSE]
        ELSE mems[i]]

\* add_memory with --supersedes: the add, and after a successful insert the
\* marking of the memory it replaces.
AddSuperseding(id, memory_type, content, tags, confidence, tier, project_path, supersedes) ==
    /\ id \notin DOMAIN memories
    /\ LET dups == find_duplicate(memories, memory_type, content)
           scope == tier_to_scope(tier)
           path == IF scope = "project" THEN project_path ELSE NoPath
           args == [NoCommand EXCEPT !.at = now, !.op = "add", !.mtype = memory_type,
                       !.content = content, !.tier = tier, !.path = project_path,
                       !.supersedes = supersedes]
       IN  IF dups # {}
           THEN /\ \E d \in dups : last' = [args EXCEPT !.kind = "duplicate", !.id = d]
                /\ memories' = memories
           ELSE /\ memories' = supersede_memory(
                                   insert_memory(memories, id, memory_type, scope, path,
                                                 content, tags, confidence),
                                   supersedes, id)
                /\ last' = [args EXCEPT !.kind = "success", !.id = id]
    /\ pre' = memories
    /\ now' = now
    /\ calls' = calls
    /\ lifecycle' = lifecycle
    /\ host' = host

\* ------------------------------------------------------------------ reads
\* text ILIKE '%query%': the lowercased text contains the lowercased query.
ILike(text, query) ==
    LET t == ToLower(Chars(text))
        q == ToLower(Chars(query))
    IN  \E k \in 0..(Len(t) - Len(q)) : SubSeq(t, k + 1, k + Len(q)) = q

\* For every query, the texts that contain it, computed once.
ContainedIn(query) == {text \in TextNames : ILike(text, query)}

ILikeTable ==
    [t0 |-> ContainedIn("t0") \cup {}, t1 |-> ContainedIn("t1") \cup {},
     t2 |-> ContainedIn("t2") \cup {}, t3 |-> ContainedIn("t3") \cup {},
     t4 |-> ContainedIn("t4") \cup {}, t5 |-> ContainedIn("t5") \cup {},
     t6 |-> ContainedIn("t6") \cup {}, t7 |-> ContainedIn("t7") \cup {}]

\* content ILIKE $1 OR EXISTS (SELECT 1 FROM unnest(tags) AS t WHERE t ILIKE $1)
KeywordWhere(m, query) ==
    \/ m.content \in ILikeTable[query]
    \/ \E k \in 1..Len(m.tags) : m.tags[k] \in ILikeTable[query]

\* SQL `project_path = $n`: never true when either side is NULL.
SqlEq(a, b) == a # NoPath /\ b # NoPath /\ a = b

\* ScopeWhere whose both-scopes branch forgets the project path.
ScopeWhere_both_any_project(m, scope_filter, project_path, include_both_scopes) ==
    IF include_both_scopes
    THEN m.scope = "global" \/ m.scope = "project"
    ELSE IF scope_filter = "project"
         THEN m.scope = "project" /\ SqlEq(m.project_path, project_path)
         ELSE IF scope_filter = "global"
              THEN m.scope = "global"
              ELSE TRUE

\* The scope part of the WHERE clause that the branch taken for
\* (include_both_scopes, scope_filter) puts in the statement.
ScopeWhere(m, scope_filter, project_path, include_both_scopes) ==
    IF include_both_scopes
    THEN m.scope = "global" \/ (m.scope = "project" /\ SqlEq(m.project_path, project_path))
    ELSE IF scope_filter = "project"
         THEN m.scope = "project" /\ SqlEq(m.project_path, project_path)
         ELSE IF scope_filter = "global"
              THEN m.scope = "global"
              ELSE TRUE

\* CASE confidence WHEN 'high' THEN 0 WHEN 'medium' THEN 1 ELSE 2 END
ConfidenceRank(confidence) ==
    IF confidence = "high" THEN 0 ELSE IF confidence = "medium" THEN 1 ELSE 2

\* OrderBefore with created_at ascending in the search order.
OrderBefore_created_ascending(order, a, b) ==
    IF order = "confidence_created"
    THEN \/ ConfidenceRank(a.confidence) < ConfidenceRank(b.confidence)
         \/ /\ ConfidenceRank(a.confidence) = ConfidenceRank(b.confidence)
            /\ a.created_at < b.created_at
    ELSE a.created_at > b.created_at

\* OrderBefore without access_count DESC in the order of get_context.
OrderBefore_access_ignored(order, a, b) ==
    IF order = "confidence_created" \/ order = "confidence_access_created"
    THEN \/ ConfidenceRank(a.confidence) < ConfidenceRank(b.confidence)
         \/ /\ ConfidenceRank(a.confidence) = ConfidenceRank(b.confidence)
            /\ a.created_at > b.created_at
    ELSE a.created_at > b.created_at

\* Row a sorts strictly before row b under the ORDER BY clause `order`.
OrderBefore(order, a, b) ==
    IF order = "confidence_created"
    THEN \/ ConfidenceRank(a.confidence) < ConfidenceRank(b.confidence)
         \/ /\ ConfidenceRank(a.confidence) = ConfidenceRank(b.confidence)
            /\ a.created_at > b.created_at
    ELSE IF order = "confidence_access_created"
    THEN \/ ConfidenceRank(a.confidence) < ConfidenceRank(b.confidence)
         \/ /\ ConfidenceRank(a.confidence) = ConfidenceRank(b.confidence)
            /\ a.access_count > b.access_count
         \/ /\ ConfidenceRank(a.confidence) = ConfidenceRank(b.confidence)
            /\ a.access_count = b.access_count
            /\ a.created_at > b.created_at
    ELSE a.created_at > b.created_at

\* The orders in which a scan can meet the rows of the table.
ScanOrders(mems) ==
    {s \in [1..Cardinality(DOMAIN mems) -> DOMAIN mems] :
        \A i, j \in 1..Cardinality(DOMAIN mems) : i # j => s[i] # s[j]}

\* ORDER BY: the ids of `rows` sorted under `order`; rows the order does not
\* tell apart stay in the order the scan met them.
RECURSIVE SortRows(_, _, _)
SortRows(mems, rows, order) ==
    IF rows = <<>> THEN <<>>
    ELSE LET n == Len(rows)
             x == rows[n]
             s == SortRows(mems, SubSeq(rows, 1, n - 1), order)
             p == Cardinality({k \in 1..Len(s) : ~OrderBefore(order, mems[x], mems[s[k]])})
         IN  SubSeq(s, 1, p) \o <<x>> \o SubSeq(s, p + 1, Len(s))

\* search_keyword cutting the scan to `limit` rows before it sorts them.
search_keyword_limit_first(mems, query, scope_filter, project_path, include_both_scopes, limit, scan) ==
    LET Hit(i) == /\ ScopeWhere(mems[i], scope_filter, project_path, include_both_scopes)
                  /\ KeywordWhere(mems[i], query)
    IN  SortRows(mems, Take(SelectSeq(scan, Hit), limit), "confidence_created")

\* db::search_keyword: WHERE, ORDER BY, LIMIT (limit >= 0) over the scan.
search_keyword(mems, query, scope_filter, project_path, include_both_scopes, limit, scan) ==
    LET Hit(i) == /\ ScopeWhere(mems[i], scope_filter, project_path, include_both_scopes)
                  /\ KeywordWhere(mems[i], query)
    IN  Take(SortRows(mems, SelectSeq(scan, Hit), "confidence_created"), limit)

\* db::search_by_type: as search_keyword, with `type = $1` and an optional keyword.
search_by_type(mems, memory_type, query, scope_filter, project_path, include_both_scopes, limit, scan) ==
    LET Hit(i) == /\ mems[i].type = memory_type
                  /\ ScopeWhere(mems[i], scope_filter, project_path, include_both_scopes)
                  /\ (query # NoFilter => KeywordWhere(mems[i], query))
    IN  Take(SortRows(mems, SelectSeq(scan, Hit), "confidence_created"), limit)

\* db::get_context_memories
get_context_memories(mems, project_path, limit, scan) ==
    LET Hit(i) == ScopeWhere(mems[i], NoFilter, project_path, TRUE)
    IN  Take(SortRows(mems, SelectSeq(scan, Hit), "confidence_access_created"), limit)

\* list_recent counting the rows of the page it returns.
list_recent_total_of_page(mems, scope_filter, project_path, include_both_scopes, limit, scan) ==
    LET Hit(i) == ScopeWhere(mems[i], scope_filter, project_path, include_both_scopes)
        rows == Take(SortRows(mems, SelectSeq(scan, Hit), "created"), limit)
    IN  [rows |-> rows, total |-> Len(rows)]

\* db::list_recent: the page and the total count.
list_recent(mems, scope_filter, project_path, include_both_scopes, limit, scan) ==
    LET Hit(i) == ScopeWhere(mems[i], scope_filter, project_path, include_both_scopes)
    IN  [rows |-> Take(SortRows(mems, SelectSeq(scan, Hit), "created"), limit),
         total |-> Cardinality({i \in DOMAIN mems : Hit(i)})]

SeqRange(s) == {s[k] : k \in 1..Len(s)}

\* mark_memories_accessed updating the first returned row only.
mark_memories_accessed_first_only(mems, ids) ==
    [i \in DOMAIN mems |->
        IF ids # <<>> /\ i = ids[1]
        THEN [mems[i] EXCEPT !.accessed_at = <<now>>, !.access_count = @ + 1]
        ELSE mems[i]]

\* mark_memories_accessed also writing updated_at = NOW().
mark_memories_accessed_touches(mems, ids) ==
    [i \in DOMAIN mems |->
        IF i \in SeqRange(ids)
        THEN [mems[i] EXCEPT !.accessed_at = <<now>>, !.access_count = @ + 1, !.updated_at = now]
        ELSE mems[i]]

\* db::mark_memories_accessed: UPDATE ... WHERE id = ANY($1)
mark_memories_accessed(mems, ids) ==
    [i \in DOMAIN mems |->
        IF i \in SeqRange(ids)
        THEN [mems[i] EXCEPT !.accessed_at = <<now>>, !.access_count = @ + 1]
        ELSE mems[i]]

\* A project path with one apostrophe, and one whose apostrophes close the
\* literal and add a condition of their own.
ApostrophePath == "/o'brien"
ConditionPath == "' OR '1'='1"

\* The pieces of a path between its apostrophes.
Pieces(text) ==
    IF text = ApostrophePath THEN <<"/o", "brien">>
    ELSE IF text = ConditionPath THEN <<"", " OR ", "1", "=", "1">>
    ELSE <<text>>

\* The path as get_stats formats it between two apostrophes: no path is the
\* empty text.
StatsPath(project_path) == Pieces(IF project_path = NoPath THEN "" ELSE project_path)

\* Whether the statements of get_stats parse: a path without an apostrophe is
\* one literal; the first apostrophe of a path ends the literal, and of what
\* follows it the statement reads `OR '<a>'='<b>'` as a condition and
\* nothing else.  A statement without the path always parses.
StatsParses(scope_filter, project_path, include_both_scopes) ==
    LET pieces == StatsPath(project_path)
    IN  \/ ~include_both_scopes /\ scope_filter # "project"
        \/ Len(pieces) = 1
        \/ Len(pieces) = 5 /\ pieces[2] = " OR " /\ pieces[4] = "="

\* StatsWhere with the path bound as a parameter, as the searches bind it.
StatsWhere_bound(m, scope_filter, project_path, include_both_scopes) ==
    ScopeWhere(m, scope_filter, IF project_path = NoPath THEN "" ELSE project_path,
               include_both_scopes)

\* The scope condition get_stats formats into its statements: the path is
\* written into the text between two apostrophes, and AND binds before OR.
StatsWhere(m, scope_filter, project_path, include_both_scopes) ==
    LET pieces == StatsPath(project_path)
        written == IF Len(pieces) = 1
                   THEN m.scope = "project" /\ SqlEq(m.project_path, pieces[1])
                   ELSE \/ m.scope = "project" /\ SqlEq(m.project_path, pieces[1])
                        \/ pieces[3] = pieces[5]
    IN  IF include_both_scopes
        THEN m.scope = "global" \/ written
        ELSE IF scope_filter = "project"
             THEN written
             ELSE IF scope_filter = "global"
                  THEN m.scope = "global"
                  ELSE TRUE

\* get_stats counting the scopes over the whole table.
get_stats_scopes_unfiltered(mems, scope_filter, project_path, include_both_scopes) ==
    LET rows == {i \in DOMAIN mems :
                    StatsWhere(mems[i], scope_filter, project_path, include_both_scopes)}
    IN  [total |-> Cardinality(rows),
         by_type |-> [t \in MemoryTypes |-> Cardinality({i \in rows : mems[i].type = t})],
         by_confidence |->
             [c \in Confidences |-> Cardinality({i \in rows : mems[i].confidence = c})],
         by_scope |-> [sc \in Scopes |-> Cardinality({i \in DOMAIN mems : mems[i].scope = sc})]]

\* db::get_stats: the total and the counts by type, confidence and scope.
get_stats(mems, scope_filter, project_path, include_both_scopes) ==
    LET rows == {i \in DOMAIN mems :
                    StatsWhere(mems[i], scope_filter, project_path, include_both_scopes)}
    IN  [total |-> Cardinality(rows),
         by_type |-> [t \in MemoryTypes |-> Cardinality({i \in rows : mems[i].type = t})],
         by_confidence |->
             [c \in Confidences |-> Cardinality({i \in rows : mems[i].confidence = c})],
         by_scope |-> [sc \in Scopes |-> Cardinality({i \in rows : mems[i].scope = sc})]]

\* commands::search::tier_to_scope_filter: <<scope_filter, include_both>>
tier_to_scope_filter(tier) ==
    IF tier = "project" THEN <<"project", FALSE>>
    ELSE IF tier = "global" THEN <<"global", FALSE>>
    ELSE <<NoFilter, TRUE>>

\* What a read command does once its query has returned `rows`: the rows are
\* marked accessed when there are any, and the response carries them.  A
\* negative LIMIT makes the statement fail and the command return the error.
Respond(args, limit, rows, marks) ==
    /\ IF limit < 0
       THEN /\ memories' = memories
            /\ last' = [args EXCEPT !.kind = "error"]
       ELSE /\ memories' = IF marks /\ rows # <<>>
                           THEN mark_memories_accessed(memories, rows)
                           ELSE memories
            /\ last' = [args EXCEPT !.kind = "success", !.ids = rows, !.count = Len(rows)]
    /\ pre' = memories
    /\ now' = now
    /\ calls' = calls
    /\ lifecycle' = lifecycle
    /\ host' = host

\* commands::search::search_keyword
SearchKeyword(query, tier, limit, project_path, scan) ==
    LET f == tier_to_scope_filter(tier)
        args == [NoCommand EXCEPT !.at = now, !.op = "search_keyword", !.query = query, !.tier = tier,
                    !.limit = limit, !.path = project_path]
    IN  Respond(args, limit,
                search_keyword(memories, query, f[1], project_path, f[2], limit, scan), TRUE)

\* commands::search::search_by_type
SearchByType(memory_type, query, tier, limit, project_path, scan) ==
    LET f == tier_to_scope_filter(tier)
        args == [NoCommand EXCEPT !.at = now, !.op = "search_by_type", !.mtype = memory_type,
                    !.query = query, !.tier = tier, !.limit = limit, !.path = project_path]
    IN  Respond(args, limit,
                search_by_type(memories, memory_type, query, f[1], project_path, f[2],
                               limit, scan), TRUE)

\* commands::search::get_context
GetContext(limit, project_path, scan) ==
    LET args == [NoCommand EXCEPT !.at = now, !.op = "get_context", !.tier = "both", !.limit = limit,
                    !.path = project_path]
    IN  Respond(args, limit, get_context_memories(memories, project_path, limit, scan), TRUE)

\* ------------------------------------------------ session and tool hooks
\* create_session: INSERT INTO sessions, status 'active' by default.
create_session(sessions, db_session, session) ==
    [d \in DOMAIN sessions \cup {db_session} |->
        IF d = db_session THEN [claude_session_id |-> session, status |-> "active"] ELSE sessions[d]]

\* end_session: UPDATE sessions SET status = 'completed' WHERE claude_session_id = $1
end_session(sessions, session) ==
    [d \in DOMAIN sessions |->
        IF sessions[d].claude_session_id = session
        THEN [sessions[d] EXCEPT !.status = "completed"]
        ELSE sessions[d]]

\* The id handle_session_start makes up when the host gives none.
GeneratedSession == <<"session_", "<timestamp_millis>">>

\* What one run of a session hook or of the tool hook did.
HookRun(session_id, result) == [session_id |-> session_id, result |-> result, before |-> host]

\* handle_session_start.  The session state is reused when it is the state
\* of this session and its database session is still active; otherwise a
\* session is created under the id `db_session` and its state is saved.
\* Then the context of the project is loaded, which marks its memories
\* accessed, and approved with the context as the reason when there is one.
HandleSessionStart(session_id, project_path, db_session, scan) ==
    LET session == IF session_id = NoSession THEN GeneratedSession ELSE session_id
        state == load_session_state(host.files, session)
        reuse == /\ state.some
                 /\ state.claude_session_id = session
                 /\ state.session_id # NoDbSession
                 /\ state.session_id \in DOMAIN host.sessions
                 /\ host.sessions[state.session_id].status = "active"
        created == [host EXCEPT !.sessions = create_session(@, db_session, session)]
        saved == save_session_state(host.files, SessionState(db_session, session, 0, NoTurn))
        rows == get_context_memories(memories, project_path, 5, scan)
        Context(h) ==
            /\ host' = h
            /\ memories' = IF rows # <<>> THEN mark_memories_accessed(memories, rows) ELSE memories
            /\ last' = [NoCommand EXCEPT !.at = now, !.op = "session_start", !.kind = "approve",
                           !.ids = rows, !.path = project_path,
                           !.found = <<HookRun(session,
                                           Ok(IF rows = <<>> THEN approve
                                              ELSE [decision |-> "approve", reason |-> "memory-context"]))>>]
    IN  /\ IF reuse
           THEN db_session = NoDbSession /\ Context(host)
           ELSE /\ db_session # NoDbSession
                /\ db_session \notin DOMAIN host.sessions
                /\ IF saved.ok
                   THEN Context([created EXCEPT !.files = saved.files])
                   ELSE /\ host' = created
                        /\ memories' = memories
                        /\ last' = [NoCommand EXCEPT !.at = now, !.op = "session_start", !.kind = "error",
                                       !.path = project_path,
                                       !.found = <<HookRun(session, Err("Io", <<>>))>>]
        /\ pre' = memories
        /\ UNCHANGED <<now, calls, lifecycle>>

\* handle_session_end: the session is completed in the database, its state
\* files and its stop marker are removed.  Without a session id nothing is
\* done.
HandleSessionEnd(session_id) ==
    /\ host' = IF session_id = NoSession
               THEN host
               ELSE [host EXCEPT
                        !.sessions = end_session(@, session_id),
                        !.files = fs_remove_file(clear_session_state(@, session_id),
                                                 get_marker_file(session_id))]
    /\ last' = [NoCommand EXCEPT !.at = now, !.op = "session_end", !.kind = "approve",
                   !.found = <<HookRun(session_id, Ok(approve))>>]
    /\ UNCHANGED <<memories, now, pre, calls, lifecycle>>

\* The session and the turn handle_post_tool_use takes from a session
\* state that is the state of the session only.
tool_call_target_checked(h, session_id) ==
    LET state == load_session_state(h.files, session_id)
        rows == find_session_by_claude_id(h.sessions, session_id)
    IN  IF session_id = NoSession THEN {<<NoDbSession, NoTurn>>}
        ELSE IF state.some /\ state.claude_session_id = session_id
        THEN {<<state.session_id, state.current_turn_id>>}
        ELSE IF rows = {} THEN {<<NoDbSession, NoTurn>>}
        ELSE {<<d, NoTurn>> : d \in rows}

\* The session and the turn handle_post_tool_use records a tool call
\* under: those of the session state when one is loaded, and otherwise a
\* database session of the Claude session, without a turn.
tool_call_target(h, session_id) ==
    LET state == load_session_state(h.files, session_id)
        rows == find_session_by_claude_id(h.sessions, session_id)
    IN  IF session_id = NoSession THEN {<<NoDbSession, NoTurn>>}
        ELSE IF state.some THEN {<<state.session_id, state.current_turn_id>>}
        ELSE IF rows = {} THEN {<<NoDbSession, NoTurn>>}
        ELSE {<<d, NoTurn>> : d \in rows}

\* handle_post_tool_use: the tool call is recorded under the session and the
\* turn of the session state; the error of the record is dropped.
HandlePostToolUse(session_id, tool_name) ==
    /\ \E target \in tool_call_target(host, session_id) :
          /\ host' = [host EXCEPT !.tool_calls =
                         Append(@, [session_id |-> target[1], turn_id |-> target[2],
                                    tool_name |-> tool_name])]
          /\ last' = [NoCommand EXCEPT !.at = now, !.op = "post_tool_use", !.kind = "approve",
                         !.found = <<HookRun(session_id, Ok(approve))>>]
    /\ UNCHANGED <<memories, now, pre, calls, lifecycle>>


\* commands::search::list_recent: no access tracking.
ListRecent(limit, tier, project_path, scan) ==
    LET f == tier_to_scope_filter(tier)
        r == list_recent(memories, f[1], project_path, f[2], limit, scan)
        args == [NoCommand EXCEPT !.at = now, !.op = "list_recent", !.tier = tier, !.limit = limit,
                    !.path = project_path,
                    !.total = IF limit >= 0 THEN r.total ELSE 0]
    IN  Respond(args, limit, r.rows, FALSE)

\* A search command as the statements it issues, for a caller that runs
\* while others do.  First statement: the SELECT.  With no row the command
\* returns the empty result at once; with rows it goes on to the access
\* tracking.
ReadRows(p, call, rows) ==
    /\ calls[p].pc = "idle"
    /\ calls' = [calls EXCEPT ![p] =
                    IF rows = <<>>
                    THEN [call EXCEPT !.pc = "done", !.kind = "success"]
                    ELSE [call EXCEPT !.pc = "read", !.read = rows]]
    /\ UNCHANGED <<memories, now, last, pre, lifecycle, host>>

\* commands::search::search_keyword up to the end of its SELECT
KeywordRead(p, query, tier, limit, project_path, scan) ==
    LET f == tier_to_scope_filter(tier)
        call == [NoCall EXCEPT !.op = "search_keyword", !.query = query, !.tier = tier,
                    !.limit = limit, !.path = project_path]
    IN  ReadRows(p, call,
                 search_keyword(memories, query, f[1], project_path, f[2], limit, scan))

\* commands::search::search_by_type up to the end of its SELECT
TypeRead(p, memory_type, query, tier, limit, project_path, scan) ==
    LET f == tier_to_scope_filter(tier)
        call == [NoCall EXCEPT !.op = "search_by_type", !.mtype = memory_type,
                    !.query = query, !.tier = tier, !.limit = limit, !.path = project_path]
    IN  ReadRows(p, call,
                 search_by_type(memories, memory_type, query, f[1], project_path, f[2],
                                limit, scan))

\* commands::search::get_context up to the end of its SELECT
ContextRead(p, limit, project_path, scan) ==
    LET call == [NoCall EXCEPT !.op = "get_context", !.tier = "both", !.limit = limit,
                    !.path = project_path]
    IN  ReadRows(p, call, get_context_memories(memories, project_path, limit, scan))

\* Second statement: the UPDATE of the access tracking succeeds, and the
\* command returns the rows it read.
MarkAccessed(p) ==
    /\ calls[p].pc = "read"
    /\ memories' = mark_memories_accessed(memories, calls[p].read)
    /\ calls' = [calls EXCEPT ![p] = [@ EXCEPT !.pc = "done", !.kind = "success",
                                         !.marked = "ok", !.ids = calls[p].read]]
    /\ UNCHANGED <<now, last, pre, lifecycle, host>>

\* Second statement: the UPDATE fails with a storage error, no row is
\* written, and `?` returns the error from the command; the process prints an
\* ErrorResponse in place of the rows.
MarkFails(p) ==
    /\ calls[p].pc = "read"
    /\ memories' = memories
    /\ calls' = [calls EXCEPT ![p] = [@ EXCEPT !.pc = "done", !.kind = "error",
                                         !.marked = "failed", !.ids = <<>>]]
    /\ UNCHANGED <<now, last, pre, lifecycle, host>>

\* The process stops between the SELECT and the UPDATE: nothing is written
\* and nothing is returned.
StopBeforeMark(p) ==
    /\ calls[p].pc = "read"
    /\ memories' = memories
    /\ calls' = [calls EXCEPT ![p] = [@ EXCEPT !.pc = "stopped"]]
    /\ UNCHANGED <<now, last, pre, lifecycle, host>>


\* commands::stats::get_stats: the first statement that does not parse
\* makes the command return the storage error.
GetStats(tier, project_path) ==
    LET f == tier_to_scope_filter(tier)
        stats == get_stats(memories, f[1], project_path, f[2])
        args == [NoCommand EXCEPT !.at = now, !.op = "get_stats",
                    !.tier = tier, !.path = project_path]
    IN  /\ IF StatsParses(f[1], project_path, f[2])
           THEN last' = [args EXCEPT !.kind = "success",
                            !.total = stats.total, !.found = <<stats>>]
           ELSE last' = [args EXCEPT !.kind = "error"]
        /\ memories' = memories
        /\ pre' = memories
        /\ now' = now
        /\ calls' = calls
        /\ lifecycle' = lifecycle
        /\ host' = host

\* NOW() moves on between two commands, up to the instant `max`.
Tick(max) ==
    /\ now < max
    /\ now' = now + 1
    /\ UNCHANGED <<memories, last, pre, calls, lifecycle, host>>

\* --------------------------------------------------------------- retention
\* Tier -> scope filter of consolidate, prune and purge: Both is no filter.
tier_to_filter(tier) ==
    IF tier = "global" THEN "global" ELSE IF tier = "project" THEN "project" ELSE NoFilter

\* FilterWhere asking of a project memory only that it is one, whatever its
\* project_path.
FilterWhere_any_project(m, scope_filter, project_path) ==
    IF scope_filter = "project"
    THEN m.scope = "project"
    ELSE IF scope_filter = "global"
         THEN m.scope = "global"
         ELSE TRUE


\* The scope conditions a bulk DELETE adds for its scope filter.
FilterWhere(m, scope_filter, project_path) ==
    IF scope_filter = "project"
    THEN m.scope = "project" /\ SqlEq(m.project_path, project_path)
    ELSE IF scope_filter = "global"
         THEN m.scope = "global"
         ELSE TRUE

\* PruneWhere without the confidence condition.
PruneWhere_any_confidence(m, confidence, days, scope_filter, project_path) ==
    /\ m.access_count = 0
    /\ m.created_at < now - days
    /\ FilterWhere(m, scope_filter, project_path)

\* PruneWhere deleting every confidence below high at the given threshold.
PruneWhere_below_high(m, confidence, days, scope_filter, project_path) ==
    /\ m.confidence # "high"
    /\ m.access_count = 0
    /\ m.created_at < now - days
    /\ FilterWhere(m, scope_filter, project_path)

\* PruneWhere without the access_count condition.
PruneWhere_any_access(m, confidence, days, scope_filter, project_path) ==
    /\ m.confidence = confidence
    /\ m.created_at < now - days
    /\ FilterWhere(m, scope_filter, project_path)

\* PruneWhere deleting from the threshold on, not only past it.
PruneWhere_at_threshold(m, confidence, days, scope_filter, project_path) ==
    /\ m.confidence = confidence
    /\ m.access_count = 0
    /\ m.created_at <= now - days
    /\ FilterWhere(m, scope_filter, project_path)

\* The WHERE clause of the pruning DELETE for one confidence level:
\* confidence = '...' AND access_count = 0
\*   AND created_at < NOW() - INTERVAL '1 day' * $1, and the scope conditions.
PruneWhere(m, confidence, days, scope_filter, project_path) ==
    /\ m.confidence = confidence
    /\ m.access_count = 0
    /\ m.created_at < now - days
    /\ FilterWhere(m, scope_filter, project_path)

\* db::prune_old_memories: the ids the DELETE of the low level returns.
prune_old_memories(mems, days, scope_filter, project_path) ==
    {i \in DOMAIN mems : PruneWhere(mems[i], "low", days, scope_filter, project_path)}

\* db::prune_old_memories_tiered: one DELETE for the low level and one for the
\* medium level, each with its own threshold; <<low ids, medium ids>>.
prune_old_memories_tiered(mems, low_days, medium_days, scope_filter, project_path) ==
    <<prune_old_memories(mems, low_days, scope_filter, project_path),
      {i \in DOMAIN mems :
          PruneWhere(mems[i], "medium", medium_days, scope_filter, project_path)}>>

\* commands::maintenance::prune
Prune(low_days, medium_days, tier, project_path) ==
    LET r == prune_old_memories_tiered(memories, low_days, medium_days,
                                       tier_to_filter(tier), project_path)
    IN  /\ memories' = [i \in DOMAIN memories \ (r[1] \cup r[2]) |-> memories[i]]
        /\ last' = [NoCommand EXCEPT !.at = now, !.op = "prune", !.kind = "success",
                       !.low_days = low_days, !.medium_days = medium_days,
                       !.tier = tier, !.path = project_path,
                       !.low_pruned_ids = r[1], !.medium_pruned_ids = r[2],
                       !.count = Cardinality(r[1]) + Cardinality(r[2])]
        /\ pre' = memories
        /\ now' = now
        /\ calls' = calls
        /\ lifecycle' = lifecycle
        /\ host' = host

\* purge_superseded measuring the age from created_at.
purge_superseded_created_at(mems, days, scope_filter, project_path) ==
    {i \in DOMAIN mems :
        /\ ~mems[i].is_active
        /\ mems[i].created_at < now - days
        /\ FilterWhere(mems[i], scope_filter, project_path)}


\* purge_superseded: DELETE of the superseded memories whose superseded_at is
\* older than `days` days, within the scope filter; the deleted ids.
purge_superseded(mems, days, scope_filter, project_path) ==
    {i \in DOMAIN mems :
        /\ ~mems[i].is_active
        /\ mems[i].superseded_at # <<>>
        /\ mems[i].superseded_at[1] < now - days
        /\ FilterWhere(mems[i], scope_filter, project_path)}

\* commands::purge_superseded
PurgeSuperseded(days, tier, project_path) ==
    LET purged_ids == purge_superseded(memories, days, tier_to_filter(tier), project_path)
    IN  /\ memories' = [i \in DOMAIN memories \ purged_ids |-> memories[i]]
        /\ last' = [NoCommand EXCEPT !.at = now, !.op = "purge", !.kind = "success",
                       !.low_days = days, !.tier = tier, !.path = project_path,
                       !.purged_ids = purged_ids, !.count = Cardinality(purged_ids)]
        /\ pre' = memories
        /\ now' = now
        /\ calls' = calls
        /\ lifecycle' = lifecycle
        /\ host' = host

\* show_chain following superseded_by to the end of the chain.
show_chain_transitive(mems, id) ==
    LET RECURSIVE After(_, _)
        After(i, n) ==
            IF n = 0 \/ i \notin DOMAIN mems \/ mems[i].superseded_by \notin DOMAIN mems
            THEN {}
            ELSE {mems[i].superseded_by} \cup After(mems[i].superseded_by, n - 1)
    IN  [memory |-> mems[id],
         predecessors |-> {i \in DOMAIN mems : mems[i].superseded_by = id},
         successors |-> After(id, Cardinality(DOMAIN mems))]

\* show_chain: the memory, the memories it replaced (those whose
\* superseded_by is its id) and the memory that replaced it (the one its own
\* superseded_by names), none of them followed any further.
show_chain(mems, id) ==
    [memory |-> mems[id],
     predecessors |-> {i \in DOMAIN mems : mems[i].superseded_by = id},
     successors |-> {i \in DOMAIN mems : i = mems[id].superseded_by}]

\* commands::show_chain
ShowChain(id) ==
    /\ last' = IF id \in DOMAIN memories
               THEN [NoCommand EXCEPT !.at = now, !.op = "chain", !.id = id,
                        !.kind = "success", !.found = <<show_chain(memories, id)>>]
               ELSE [NoCommand EXCEPT !.at = now, !.op = "chain", !.id = id,
                        !.kind = "not_found"]
    /\ memories' = memories
    /\ pre' = memories
    /\ now' = now
    /\ calls' = calls
    /\ lifecycle' = lifecycle
    /\ host' = host


\* consolidate_duplicates asking only of m2 that it lies within the scope filter.
consolidate_duplicates_m2_in_scope(mems, scope_filter, project_path) ==
    LET firsts(b) ==
            {a \in DOMAIN mems :
                /\ a < b
                /\ mems[a].type = mems[b].type
                /\ ContentPrefix(mems[a].content) = ContentPrefix(mems[b].content)
                /\ FilterWhere(mems[b], scope_filter, project_path)}
    IN  [b \in {c \in DOMAIN mems : firsts(c) # {}} |-> Cardinality(firsts(b))]

\* consolidate_duplicates whose SELECT ends with LIMIT 1 after ORDER BY m2.id.
consolidate_duplicates_limit_one(mems, scope_filter, project_path) ==
    LET firsts(b) ==
            {a \in DOMAIN mems :
                /\ a < b
                /\ mems[a].type = mems[b].type
                /\ ContentPrefix(mems[a].content) = ContentPrefix(mems[b].content)
                /\ FilterWhere(mems[a], scope_filter, project_path)
                /\ FilterWhere(mems[b], scope_filter, project_path)}
        seconds == {c \in DOMAIN mems : firsts(c) # {}}
    IN  [b \in {c \in seconds : \A d \in seconds : c <= d} |-> 1]

\* db::consolidate_duplicates: the SELECT returns m2.id once for every row of
\* the self-join, so the result is a bag of ids: the id of m2 occurs once for
\* every m1 paired with it.  The DELETE of an id that is already gone deletes
\* nothing.
consolidate_duplicates(mems, scope_filter, project_path) ==
    LET firsts(b) ==
            {a \in DOMAIN mems :
                /\ a < b
                /\ mems[a].type = mems[b].type
                /\ ContentPrefix(mems[a].content) = ContentPrefix(mems[b].content)
                /\ FilterWhere(mems[a], scope_filter, project_path)
                /\ FilterWhere(mems[b], scope_filter, project_path)}
    IN  [b \in {c \in DOMAIN mems : firsts(c) # {}} |-> Cardinality(firsts(b))]

\* commands::consolidate
Consolidate(tier, project_path) ==
    LET duplicate_ids == consolidate_duplicates(memories, tier_to_filter(tier), project_path)
    IN  /\ memories' = [i \in DOMAIN memories \ BagToSet(duplicate_ids) |-> memories[i]]
        /\ last' = [NoCommand EXCEPT !.at = now, !.op = "consolidate", !.kind = "success",
                       !.tier = tier, !.path = project_path,
                       !.duplicate_ids = duplicate_ids,
                       !.count = BagCardinality(duplicate_ids),
                       !.rerun = /\ last.op = "consolidate"
                                 /\ last.tier = tier
                                 /\ last.path = project_path,
                       !.first_removed = last.count]
        /\ pre' = memories
        /\ now' = now
        /\ calls' = calls
        /\ lifecycle' = lifecycle
        /\ host' = host

\* consolidate as the statements it issues, for a caller that runs while
\* others do.  First statement: the SELECT of the duplicates.  `selected`
\* keeps each selected row as the SELECT saw it, `todo` the ids that the loop
\* has still to delete.
ConsolidateSelect(p, tier, project_path) ==
    LET duplicate_ids == consolidate_duplicates(memories, tier_to_filter(tier), project_path)
    IN  /\ calls[p].pc = "idle"
        /\ calls' = [calls EXCEPT ![p] =
                        [NoCall EXCEPT !.op = "consolidate", !.pc = "selected", !.tier = tier,
                            !.path = project_path, !.todo = duplicate_ids,
                            !.selected = [i \in BagToSet(duplicate_ids) |-> memories[i]]]]
        /\ UNCHANGED <<memories, now, last, pre, lifecycle, host>>

\* One turn of the loop: DELETE FROM memories WHERE id = $1 for one of the
\* selected ids, whatever the row holds by now; a row that is gone deletes
\* nothing.  `removed` keeps each row as it was when the loop deleted it.
ConsolidateDelete(p) ==
    /\ calls[p].pc = "selected"
    /\ calls[p].todo # EmptyBag
    /\ \E id \in BagToSet(calls[p].todo) :
          LET hit == id \in DOMAIN memories
          IN  /\ memories' = IF hit THEN delete_memory(memories, id) ELSE memories
              /\ calls' = [calls EXCEPT ![p] =
                              [@ EXCEPT !.todo = @ (-) SetToBag({id}),
                                        !.removed = IF hit
                                                    THEN [i \in DOMAIN @ \cup {id} |->
                                                             IF i = id THEN memories[id] ELSE @[i]]
                                                    ELSE @]]
    /\ UNCHANGED <<now, last, pre, lifecycle, host>>

\* A DELETE of the loop fails with a storage error: `?` returns the error
\* from the command, and what the loop has deleted stays deleted.
ConsolidateFails(p) ==
    /\ calls[p].pc = "selected"
    /\ calls[p].todo # EmptyBag
    /\ calls' = [calls EXCEPT ![p] = [@ EXCEPT !.pc = "done", !.kind = "error"]]
    /\ UNCHANGED <<memories, now, last, pre, lifecycle, host>>

\* The loop is over: the command returns the selected ids.
ConsolidateReturn(p) ==
    /\ calls[p].pc = "selected"
    /\ calls[p].todo = EmptyBag
    /\ calls' = [calls EXCEPT ![p] = [@ EXCEPT !.pc = "done", !.kind = "success"]]
    /\ UNCHANGED <<memories, now, last, pre, lifecycle, host>>


\* ----------------------------------------------------------- lifecycle data
\* An i64 argument as its two 32-bit words: hi is the upper word, lo the
\* lower word read as a signed 32-bit number.  The value is hi * 2^32 + lo
\* for lo >= 0.
I64(hi, lo) == [hi |-> hi, lo |-> lo]

\* `days as i32`: the lower 32 bits, whatever the upper word holds.
AsI32(days) == days.lo

\* A session, turn or tool call is recorded by the hooks.
RecordRow(category, id) ==
    /\ id \notin DOMAIN lifecycle[category]
    /\ lifecycle' = [lifecycle EXCEPT ![category] =
                        [i \in DOMAIN @ \cup {id} |-> IF i = id THEN now ELSE @[i]]]
    /\ last' = [NoCommand EXCEPT !.at = now, !.op = "record", !.kind = "success", !.id = id]
    /\ UNCHANGED <<memories, now, pre, calls, host>>

\* The rows of a category created more than `days` days ago.
OlderRows(tables, category, days) ==
    {i \in DOMAIN tables[category] : tables[category][i] < now - days}

\* prune_lifecycle_data counting, in a dry run, the rows of the tool calls
\* by the threshold of the turns.
prune_lifecycle_data_dry_by_turns(tables, tool_calls_days, turns_days, sessions_days, dry_run) ==
    LET old == [tool_calls |-> OlderRows(tables, "tool_calls",
                                         IF dry_run THEN turns_days ELSE tool_calls_days),
                turns |-> OlderRows(tables, "turns", turns_days),
                sessions |-> OlderRows(tables, "sessions", sessions_days)]
    IN  [tables |-> IF dry_run
                    THEN tables
                    ELSE [c \in Categories |->
                             [i \in DOMAIN tables[c] \ old[c] |-> tables[c][i]]],
         tool_calls_pruned |-> Cardinality(old.tool_calls),
         turns_pruned |-> Cardinality(old.turns),
         sessions_pruned |-> Cardinality(old.sessions)]

\* prune_lifecycle_data: for each category the rows older than its threshold
\* are counted and, unless dry_run is set, deleted.
prune_lifecycle_data(tables, tool_calls_days, turns_days, sessions_days, dry_run) ==
    LET old == [tool_calls |-> OlderRows(tables, "tool_calls", tool_calls_days),
                turns |-> OlderRows(tables, "turns", turns_days),
                sessions |-> OlderRows(tables, "sessions", sessions_days)]
    IN  [tables |-> IF dry_run
                    THEN tables
                    ELSE [c \in Categories |->
                             [i \in DOMAIN tables[c] \ old[c] |-> tables[c][i]]],
         tool_calls_pruned |-> Cardinality(old.tool_calls),
         turns_pruned |-> Cardinality(old.turns),
         sessions_pruned |-> Cardinality(old.sessions)]

\* commands::prune_data: the i64 thresholds are cast to i32 on the way to
\* the database.  `before` keeps the tables as the command found them.
PruneData(tool_calls_days, turns_days, sessions_days, dry_run) ==
    LET result == prune_lifecycle_data(lifecycle, AsI32(tool_calls_days), AsI32(turns_days),
                                       AsI32(sessions_days), dry_run)
    IN  /\ lifecycle' = result.tables
        /\ last' = [NoCommand EXCEPT !.at = now, !.op = "prune_data", !.kind = "success",
                       !.found = <<[tool_calls_days |-> tool_calls_days,
                                    turns_days |-> turns_days,
                                    sessions_days |-> sessions_days,
                                    tool_calls_pruned |-> result.tool_calls_pruned,
                                    turns_pruned |-> result.turns_pruned,
                                    sessions_pruned |-> result.sessions_pruned,
                                    dry_run |-> dry_run,
                                    before |-> lifecycle]>>]
        /\ UNCHANGED <<memories, now, pre, calls, host>>


\* ---------------------------------------------------------- specifications
\* Add, update and delete over contents that collide and that do not.
AddTexts == {"t1", "t2", "t3", "t6"}
AddTypes == {"learning", "gotcha"}
\* <<tier, caller's project path>>
AddCallers == {<<"global", "/p1">>, <<"project", "/p1">>, <<"both", "/p2">>}

FreshId(id) == id \in Ids \ DOMAIN memories /\ \A j \in Ids \ DOMAIN memories : id <= j

\* No access_count goes past `max`: a read that would count further is not
\* explored.
AccessAtMost(max) == \A i \in DOMAIN memories' : memories'[i].access_count <= max

\* The table holds at most `max` rows: an add that would insert one more is
\* not explored.
Room(max, memory_type, content) ==
    \/ Cardinality(DOMAIN memories) < max
    \/ find_duplicate(memories, memory_type, content) # {}

AddStep ==
    \E id \in Ids, ty \in AddTypes, c \in AddTexts, w \in AddCallers :
        /\ FreshId(id)
        /\ Room(MaxMemAdd, ty, c)
        /\ AddMemory(id, ty, c, <<>>, "medium", w[1], w[2])

AddUpdateStep ==
    \E id \in Ids : UpdateMemory(id, "t2", NoFilter, NoPath)

NextAdd == AddStep \/ AddUpdateStep

SpecAdd == Init /\ [][NextAdd]_vars

\* Reads under every tier, by callers in project /p1 and outside any project,
\* of a table holding global memories and memories of the projects /p1 and /p2.
\* Duplicate detection bounds the table by the number of contents.
ScopeTexts == {"t4", "t7"}
ScopeCallers ==
    {<<"global", "/p1">>, <<"project", "/p1">>, <<"project", "/p2">>, <<"project", NoPath>>}
ScopePaths == {"/p1", NoPath}

ScopeAddStep ==
    \E id \in Ids, c \in ScopeTexts, w \in ScopeCallers :
        FreshId(id) /\ AddMemory(id, "learning", c, <<>>, "medium", w[1], w[2])

ScopeSearchKeywordStep ==
    \E t \in Tiers, p \in ScopePaths, scan \in ScanOrders(memories) :
        /\ SearchKeyword("t0", t, MaxLimit, p, scan)
        /\ AccessAtMost(MaxAccess)

ScopeSearchByTypeStep ==
    \E t \in Tiers, p \in ScopePaths, scan \in ScanOrders(memories) :
        /\ SearchByType("learning", NoFilter, t, MaxLimit, p, scan)
        /\ AccessAtMost(MaxAccess)

ScopeGetContextStep ==
    \E p \in ScopePaths, scan \in ScanOrders(memories) :
        /\ GetContext(MaxLimit, p, scan)
        /\ AccessAtMost(MaxAccess)

ScopeListRecentStep ==
    \E t \in Tiers, p \in ScopePaths, scan \in ScanOrders(memories) :
        ListRecent(MaxLimit, t, p, scan)

NextScope ==
    \/ ScopeAddStep
    \/ ScopeSearchKeywordStep
    \/ ScopeSearchByTypeStep
    \/ ScopeGetContextStep
    \/ ScopeListRecentStep

SpecScope == Init /\ [][NextScope]_vars

\* Ranked reads, by a caller in project /p1, of a table whose memories differ
\* in confidence and in creation time: one text is added as a global memory,
\* the other as a memory of /p1.
RankCallers == [t4 |-> "global", t7 |-> "project"]
RankQueries == {"t0", "t4"}
RankTiers == {"both", "global"}

RankAddStep ==
    \E id \in Ids, c \in DOMAIN RankCallers, k \in Confidences :
        FreshId(id) /\ AddMemory(id, "learning", c, <<>>, k, RankCallers[c], "/p1")

RankSearchKeywordStep ==
    \E q \in RankQueries, t \in RankTiers, n \in (0 - 1)..MaxLimit,
       scan \in ScanOrders(memories) :
        /\ SearchKeyword(q, t, n, "/p1", scan)
        /\ AccessAtMost(MaxAccess)

RankSearchByTypeStep ==
    \E t \in RankTiers, n \in 1..MaxLimit, scan \in ScanOrders(memories) :
        /\ SearchByType("learning", NoFilter, t, n, "/p1", scan)
        /\ AccessAtMost(MaxAccess)

RankGetContextStep ==
    \E n \in 1..MaxLimit, scan \in ScanOrders(memories) :
        /\ GetContext(n, "/p1", scan)
        /\ AccessAtMost(MaxAccess)

RankTickStep == Tick(MaxTimeRank)

NextRank ==
    \/ RankAddStep
    \/ RankSearchKeywordStep
    \/ RankSearchByTypeStep
    \/ RankGetContextStep
    \/ RankTickStep

SpecRank == Init /\ [][NextRank]_vars

\* Tiered prune of a table whose memories differ in confidence, age and use:
\* one text is added as a memory of /p1, the other as a global memory.
PruneCallers == [t4 |-> "project", t7 |-> "global"]
PruneTiers == {"project", "both"}
\* The thresholds: none at all, and the longest.
PruneDays == {0, MaxDays}

PruneAddStep ==
    \E id \in Ids, c \in DOMAIN PruneCallers, k \in Confidences :
        FreshId(id) /\ AddMemory(id, "learning", c, <<>>, k, PruneCallers[c], "/p1")

PruneGetContextStep ==
    \E scan \in ScanOrders(memories) :
        /\ GetContext(1, "/p1", scan)
        /\ AccessAtMost(MaxAccess)

PruneStep ==
    \E low \in PruneDays, medium \in PruneDays, t \in PruneTiers :
        Prune(low, medium, t, "/p1")

PruneTickStep == Tick(MaxTimePrune)

NextPrune ==
    \/ PruneAddStep
    \/ PruneGetContextStep
    \/ PruneStep
    \/ PruneTickStep

SpecPrune == Init /\ [][NextPrune]_vars

\* Consolidate over tables in which updates have produced duplicates: adds
\* refuse a duplicate, an update of the content does not look for one.  Ids are
\* UUIDs, so a new row may take any unused id, below or above the others.
DupItems == {<<"learning", "t4">>, <<"learning", "t6">>, <<"gotcha", "t4">>}
DupCallers == {<<"global", "/p1">>, <<"project", "/p1">>, <<"project", "/p2">>}
\* (tier, project_path) of the consolidate runs: every tier from within the
\* project /p1, and the project tier from outside of any project.
DupRuns == {<<"project", "/p1">>, <<"global", "/p1">>, <<"both", "/p1">>, <<"project", NoPath>>}

DupAddStep ==
    \E id \in Ids, it \in DupItems, w \in DupCallers :
        AddMemory(id, it[1], it[2], <<>>, "medium", w[1], w[2])

DupUpdateStep ==
    \E id \in Ids : UpdateMemory(id, "t5", NoFilter, NoPath)

DupConsolidateStep ==
    \E r \in DupRuns : Consolidate(r[1], r[2])

NextConsolidate ==
    \/ DupAddStep
    \/ DupUpdateStep
    \/ DupConsolidateStep

SpecConsolidate == Init /\ [][NextConsolidate]_vars

\* Context retrieval, by a caller in project /p1, of a table whose memories
\* differ in confidence, in creation time and in how often they were returned
\* before: a keyword search returns, and so counts, one of the two contents
\* only.
ContextAddStep ==
    \E id \in Ids, c \in {"t4", "t7"}, k \in {"high", "low"} :
        FreshId(id) /\ AddMemory(id, "learning", c, <<>>, k, "project", "/p1")

ContextSearchKeywordStep ==
    \E scan \in ScanOrders(memories) :
        /\ SearchKeyword("t4", "both", 1, "/p1", scan)
        /\ AccessAtMost(MaxAccess)

ContextGetContextStep ==
    \E n \in 1..MaxLimit, scan \in ScanOrders(memories) :
        /\ GetContext(n, "/p1", scan)
        /\ AccessAtMost(MaxAccessContext)

ContextTickStep == Tick(MaxTimeRank)

NextContext ==
    \/ ContextAddStep
    \/ ContextSearchKeywordStep
    \/ ContextGetContextStep
    \/ ContextTickStep

SpecContext == Init /\ [][NextContext]_vars

\* Listing, by a caller in project /p1 and under every tier, of a table whose
\* memories differ in confidence and in creation time: one text is added as a
\* global memory, the other as a memory of /p1.
RecentAddStep ==
    \E id \in Ids, c \in DOMAIN RankCallers, k \in {"high", "low"} :
        FreshId(id) /\ AddMemory(id, "learning", c, <<>>, k, RankCallers[c], "/p1")

RecentListRecentStep ==
    \E n \in (0 - 1)..MaxLimit, t \in Tiers, scan \in ScanOrders(memories) :
        ListRecent(n, t, "/p1", scan)

RecentTickStep == Tick(MaxTimeRank)

NextRecent ==
    \/ RecentAddStep
    \/ RecentListRecentStep
    \/ RecentTickStep

SpecRecent == Init /\ [][NextRecent]_vars

\* Writes and gets by id, with every tier, by a caller in project /p1 and by a
\* caller with no project path.
WritePaths == {"/p1", NoPath}

WriteAddStep ==
    \E id \in Ids, c \in {"t4", "t7"}, t \in Tiers, p \in WritePaths :
        FreshId(id) /\ AddMemory(id, "learning", c, <<>>, "medium", t, p)

WriteUpdateStep ==
    \E id \in Ids, t \in {NoFilter, "global", "project"} :
        UpdateMemory(id, "t5", t, "/p1")

WriteDeleteStep ==
    \E id \in Ids : DeleteMemory(id)

WriteGetStep ==
    \E id \in Ids : GetMemory(id)

NextWrite ==
    \/ WriteAddStep
    \/ WriteUpdateStep
    \/ WriteDeleteStep
    \/ WriteGetStep

SpecWrite == Init /\ [][NextWrite]_vars

\* Supersession among the other commands, from within the project /p1: an add
\* may name the memory it replaces, by an id that is in the table or by one
\* that is not; the new memory's own id is not known to its caller.  Every
\* command runs at the same instant: the days arguments are 0, past which no
\* memory is, and -1, past which every memory is.
SupersedeAddStep ==
    \E id \in Ids, old \in Ids \cup {NoId} :
        /\ FreshId(id)
        /\ old # id
        /\ Room(MaxMemEngine, "learning", "t4")
        /\ AddSuperseding(id, "learning", "t4", <<>>, "low", "project", "/p1", old)

SupersedeUpdateStep ==
    \E id \in Ids : UpdateMemory(id, "t7", NoFilter, NoPath)

SupersedeDeleteStep ==
    \E id \in Ids : DeleteMemory(id)

SupersedeGetStep ==
    \E id \in Ids : GetMemory(id)

SupersedeSearchKeywordStep ==
    \E scan \in ScanOrders(memories) :
        /\ SearchKeyword("t0", "both", MaxLimit, "/p1", scan)
        /\ AccessAtMost(MaxAccess)

SupersedeConsolidateStep == Consolidate("both", "/p1")

SupersedePruneStep ==
    \E days \in {0 - 1, 0} : Prune(days, days, "both", "/p1")

SupersedePurgeStep ==
    \E days \in {0 - 1, 0} : PurgeSuperseded(days, "both", "/p1")

NextSupersede ==
    \/ SupersedeAddStep
    \/ SupersedeUpdateStep
    \/ SupersedeDeleteStep
    \/ SupersedeGetStep
    \/ SupersedeSearchKeywordStep
    \/ SupersedeConsolidateStep
    \/ SupersedePruneStep
    \/ SupersedePurgeStep

SpecSupersede == Init /\ [][NextSupersede]_vars

\* Supersession chains over up to three memories of /p1 with three contents
\* that do not collide: every add may name the memory it replaces, and
\* show_chain is asked of every id.  No memory is deleted, so that no id is
\* given out twice.
ChainTexts == {"t4", "t6", "t7"}

ChainAddStep ==
    \E id \in Ids, old \in Ids \cup {NoId}, c \in ChainTexts :
        /\ FreshId(id)
        /\ old # id
        /\ AddSuperseding(id, "learning", c, <<>>, "low", "project", "/p1", old)

ChainShowStep ==
    \E id \in Ids : ShowChain(id)

NextChain ==
    \/ ChainAddStep
    \/ ChainShowStep

SpecChain == Init /\ [][NextChain]_vars


\* Purge of a table whose memories differ in scope, in age and in when, if
\* ever, they were replaced: two texts are added as memories of /p1, the
\* third as a global memory, and every add may name the memory it replaces.
PurgeCallers == [t4 |-> "project", t6 |-> "project", t7 |-> "global"]

PurgeAddStep ==
    \E id \in Ids, old \in Ids \cup {NoId}, c \in DOMAIN PurgeCallers :
        /\ FreshId(id)
        /\ old # id
        /\ AddSuperseding(id, "learning", c, <<>>, "low", PurgeCallers[c], "/p1", old)

PurgeStep ==
    \E days \in PruneDays, t \in PruneTiers : PurgeSuperseded(days, t, "/p1")

PurgeTickStep == Tick(MaxTimePrune)

NextPurge ==
    \/ PurgeAddStep
    \/ PurgeStep
    \/ PurgeTickStep

SpecPurge == Init /\ [][NextPurge]_vars


\* The three bulk deletions, each with the project and with the global filter,
\* over memories of /p1, of /p2 and global ones with the same content: every
\* memory is low-confidence and unused, the add of a content that is already
\* there is refused, an update moves a memory to the other content, where
\* it may meet a duplicate, and an add may name a memory of the table as the
\* one it replaces.  Every command runs at the same instant: the days
\* argument is -1, past which every memory is.
SweepCallers == {<<"project", "/p1">>, <<"project", "/p2">>, <<"global", "/p1">>}
SweepTiers == {"project", "global"}

SweepAddStep ==
    \E id \in Ids, old \in DOMAIN memories \cup {NoId}, c \in SweepCallers :
        /\ FreshId(id)
        /\ Room(MaxMemEngine, "learning", "t4")
        /\ AddSuperseding(id, "learning", "t4", <<>>, "low", c[1], c[2], old)

SweepUpdateStep ==
    \E id \in Ids : UpdateMemory(id, "t7", NoFilter, NoPath)

SweepConsolidateStep ==
    \E t \in SweepTiers : Consolidate(t, "/p1")

SweepPruneStep ==
    \E t \in SweepTiers : Prune(0 - 1, 0 - 1, t, "/p1")

SweepPurgeStep ==
    \E t \in SweepTiers : PurgeSuperseded(0 - 1, t, "/p1")

NextSweep ==
    \/ SweepAddStep
    \/ SweepUpdateStep
    \/ SweepConsolidateStep
    \/ SweepPruneStep
    \/ SweepPurgeStep

SpecSweep == Init /\ [][NextSweep]_vars


\* Two callers, each running one add, statement by statement and in any
\* interleaving, over an empty table: the contents t4 and t5 collide, t7
\* collides with neither.
RaceTexts == {"t4", "t5", "t7"}

RaceCheckStep ==
    \E p \in Callers, c \in RaceTexts, t \in AddTypes :
        AddCheck(p, t, c, <<>>, "low", "project", "/p1")

RaceInsertStep ==
    \E p \in Callers, id \in Ids : FreshId(id) /\ AddInsert(p, id)

NextRace ==
    \/ RaceCheckStep
    \/ RaceInsertStep

SpecRace == Init /\ [][NextRace]_vars


\* Two callers, each running one search command statement by statement, over
\* a table that adds fill: the access tracking of a command succeeds, fails
\* with a storage error, or is never reached because the process stops.
TrackAddStep ==
    \E id \in Ids, c \in {"t4", "t7"}, k \in {"high", "low"} :
        /\ FreshId(id)
        /\ Room(MaxMemEngine, "learning", c)
        /\ AddMemory(id, "learning", c, <<>>, k, "project", "/p1")

TrackKeywordReadStep ==
    \E p \in Callers, scan \in ScanOrders(memories) :
        KeywordRead(p, "t6", "both", MaxLimit, "/p1", scan)

TrackTypeReadStep ==
    \E p \in Callers, scan \in ScanOrders(memories) :
        TypeRead(p, "learning", NoFilter, "project", 1, "/p1", scan)

TrackContextReadStep ==
    \E p \in Callers, scan \in ScanOrders(memories) :
        ContextRead(p, 1, "/p1", scan)

TrackMarkAccessedStep ==
    \E p \in Callers : MarkAccessed(p) /\ AccessAtMost(MaxAccess)

TrackMarkFailsStep ==
    \E p \in Callers : MarkFails(p)

TrackStopStep ==
    \E p \in Callers : StopBeforeMark(p)

NextTrack ==
    \/ TrackAddStep
    \/ TrackKeywordReadStep
    \/ TrackTypeReadStep
    \/ TrackContextReadStep
    \/ TrackMarkAccessedStep
    \/ TrackMarkFailsStep
    \/ TrackStopStep

SpecTrack == Init /\ [][NextTrack]_vars


\* A consolidate of caller c1, statement by statement, over memories of /p1
\* that updates make duplicates of each other and move apart again, while the
\* consolidate runs as well; any DELETE of the loop may fail.
BulkAddStep ==
    \E id \in Ids :
        /\ FreshId(id)
        /\ Room(MaxMemEngine, "learning", "t4")
        /\ AddMemory(id, "learning", "t4", <<>>, "low", "project", "/p1")

BulkUpdateStep ==
    \E id \in Ids, c \in {"t4", "t7"} : UpdateMemory(id, c, NoFilter, NoPath)

BulkSelectStep == ConsolidateSelect("c1", "project", "/p1")

BulkDeleteStep == ConsolidateDelete("c1")

BulkFailsStep == ConsolidateFails("c1")

BulkReturnStep == ConsolidateReturn("c1")

NextBulk ==
    \/ BulkAddStep
    \/ BulkUpdateStep
    \/ BulkSelectStep
    \/ BulkDeleteStep
    \/ BulkFailsStep
    \/ BulkReturnStep

SpecBulk == Init /\ [][NextBulk]_vars


\* The lifecycle prune, dry and not, over tables whose rows differ in age.
\* The thresholds are 0 days, the longest of the small ones, and 2^32 days,
\* an i64 whose lower word is 0; each run gives the categories thresholds
\* that differ.
DataRuns ==
    {<<I64(0, 0), I64(0, MaxDays), I64(0, MaxDays)>>,
     <<I64(0, MaxDays), I64(0, 0), I64(0, MaxDays)>>,
     <<I64(0, MaxDays), I64(0, MaxDays), I64(0, 0)>>,
     <<I64(1, 0), I64(0, MaxDays), I64(0, 0)>>}

\* The three tables hold at most MaxRows rows between them.
RowCount ==
    Cardinality(DOMAIN lifecycle["tool_calls"]) + Cardinality(DOMAIN lifecycle["turns"])
        + Cardinality(DOMAIN lifecycle["sessions"])

DataRecordStep ==
    \E c \in Categories, id \in 1..MaxRows :
        /\ RowCount < MaxRows
        /\ \A j \in 1..MaxRows \ DOMAIN lifecycle[c] : id <= j
        /\ RecordRow(c, id)

DataPruneStep ==
    \E r \in DataRuns, dry_run \in BOOLEAN : PruneData(r[1], r[2], r[3], dry_run)

DataTickStep == Tick(MaxTimePrune)

NextData ==
    \/ DataRecordStep
    \/ DataPruneStep
    \/ DataTickStep

SpecData == Init /\ [][NextData]_vars


\* Every variant of every enum is printed and parsed back, and every enum
\* parses the strings below: each literal of any of the enums in lower case,
\* in upper case, capitalised and with the case alternating, and strings that
\* are no literal: the empty string, and each literal short of its last
\* character, with one character more, and after a space.
UpperChar(ch) ==
    IF \E i \in 1..Len(LowerLetters) : LowerLetters[i] = ch
    THEN UpperLetters[CHOOSE i \in 1..Len(LowerLetters) : LowerLetters[i] = ch]
    ELSE ch

Literals == UNION {{as_str(e, v) : v \in Variants(e)} : e \in Enums}

ParseInputs ==
    {<<>>}
    \cup Literals
    \cup {[i \in 1..Len(w) |-> UpperChar(w[i])] : w \in Literals}
    \cup {[i \in 1..Len(w) |-> IF i = 1 THEN UpperChar(w[i]) ELSE w[i]] : w \in Literals}
    \cup {[i \in 1..Len(w) |-> IF i % 2 = 0 THEN UpperChar(w[i]) ELSE w[i]] : w \in Literals}
    \cup {SubSeq(w, 1, Len(w) - 1) : w \in Literals}
    \cup {w \o <<"s">> : w \in Literals}
    \cup {<<" ">> \o w : w \in Literals}

ParseAsStrStep ==
    \E e \in Enums : \E v \in Variants(e) : AsStr(e, v)

ParseStep ==
    \E e \in Enums, s \in ParseInputs : Parse(e, s)

NextParse ==
    \/ ParseAsStrStep
    \/ ParseStep

SpecParse == Init /\ [][NextParse]_vars


\* ------------------------------------------------- specification: summary
\* Contents around the two thresholds, 97 and 100, in characters and in
\* bytes: a run of one character, ASCII or not, followed by a short tail.
SummaryRuns == {0, 1, 32, 33, 48, 49, 50, 51, 95, 96, 97, 98, 99, 100, 101, 150}
SummaryFill == {"x", "U+00E9", "U+20AC"}
SummaryTails == {<<>>, <<"y">>, <<"U+00E9">>, <<"U+20AC">>, <<"U+1F600">>}
SummaryTexts ==
    UNION {{Repeat(ch, n) \o tail : n \in SummaryRuns, tail \in SummaryTails} : ch \in SummaryFill}

\* A memory with one of these contents is at hand.
InitSummary ==
    /\ memories = << >>
    /\ now = 0
    /\ pre = << >>
    /\ calls = [p \in Callers |-> NoCall]
    /\ lifecycle = [c \in Categories |-> << >>]
    /\ host = NoHost
    /\ \E content \in SummaryTexts :
           last = [NoCommand EXCEPT !.op = "content", !.found = <<content>>]

SummaryToSummaryStep == ToSummary(last.found[1])
SummarySearchItemStep == SearchItem(last.found[1])
SummaryDuplicateStep == DuplicateSummary(last.found[1])

NextSummary ==
    \/ SummaryToSummaryStep
    \/ SummarySearchItemStep
    \/ SummaryDuplicateStep

SpecSummary == InitSummary /\ [][NextSummary]_vars


\* --------------------------------------------------- specification: stop hook
\* The stop hook over two sessions, the id of one holding a "/", inside and
\* outside an extraction instance, over transcripts that
\* lack a message, that are not substantive and that are, with and without
\* a current turn; the marker of a session is removed in between.
StopSessions == {<<"s", "1">>, <<"s", "/", "2">>}
StopTranscripts ==
    {NoTranscript,
     Transcript(Message(Repeat("x", 20)), NoMessage),
     Transcript(Message(<<"o", "k">>), Message(<<"r">>)),
     Transcript(Message(<<" ", "Y", "e", "s">> \o Repeat(" ", 16)), Message(<<"r">>)),
     Transcript(Message(<<"/">> \o Repeat("x", 20)), Message(<<"r">>)),
     Transcript(Message(Repeat("x", 20)), Message(<<"r">>))}
StopTurns == {NoTurn, "turn1"}

StopHandleStep ==
    \E session_id \in StopSessions, extraction \in BOOLEAN,
       transcript \in StopTranscripts, turn_id \in StopTurns :
        HandleStop(session_id, extraction, transcript, turn_id, {})
StopCleanupStep == \E session_id \in {claude_session_id(s) : s \in StopSessions} : CleanupMarker(session_id)

NextStop ==
    \/ StopHandleStep
    \/ StopCleanupStep

SpecStop == Init /\ [][NextStop]_vars


\* ------------------------------------------ specification: stop hook, faults
\* The stop hook of the session without an id over every path of the
\* handler: in an extraction instance, with the marker there and not, without
\* a transcript, with one that is empty or cannot be read, with one that
\* lacks the assistant message, with a trivial and with a substantive turn,
\* with and without a current turn, while update-turn, the shell, both or
\* neither fail.
ApproveTranscripts ==
    {NoTranscript,
     Transcript(NoMessage, NoMessage),
     Transcript(Message(Repeat("x", 20)), NoMessage),
     Transcript(Message(<<"o", "k">>), Message(<<"r">>)),
     Transcript(Message(Repeat("x", 20)), Message(<<"r">>))}

ApproveHandleStep ==
    \E extraction \in BOOLEAN, transcript \in ApproveTranscripts, turn_id \in StopTurns,
       failing \in SUBSET StopCommands :
        HandleStop(NoSession, extraction, transcript, turn_id, failing)
ApproveCleanupStep == CleanupMarker(UnknownSession)

NextApprove ==
    \/ ApproveHandleStep
    \/ ApproveCleanupStep


SpecApprove == Init /\ [][NextApprove]_vars

\* ---- writes, reads with access tracking and retention, with time passing
UpdateAddStep ==
    \E id \in Ids, old \in Ids \cup {NoId} :
        /\ FreshId(id)
        /\ old # id
        /\ Room(MaxMemAdd, "learning", "t4")
        /\ IF old = NoId
           THEN AddMemoryFrom(id, "learning", "t4", <<"t0">>, "low", "project", "/p1", "db1", "turn1")
           ELSE AddSuperseding(id, "learning", "t4", <<"t0">>, "low", "project", "/p1", old)
UpdateUpdateStep ==
    \E id \in Ids, u \in {<<"t7", NoFilter>>, <<"t6", "global">>} : UpdateMemory(id, u[1], u[2], NoPath)
UpdateSearchStep ==
    \E scan \in ScanOrders(memories) :
        /\ SearchKeyword("t0", "both", MaxLimit, "/p1", scan)
        /\ AccessAtMost(MaxAccess)
UpdateDeleteStep == \E id \in Ids : DeleteMemory(id)
UpdateRetentionStep == Consolidate("both", "/p1")
UpdateTickStep == Tick(MaxTimeRank)

NextUpdate ==
    \/ UpdateAddStep
    \/ UpdateUpdateStep
    \/ UpdateSearchStep
    \/ UpdateDeleteStep
    \/ UpdateRetentionStep
    \/ UpdateTickStep

SpecUpdate == Init /\ [][NextUpdate]_vars

\* ---- memories that are read, rewritten and pruned as they age
AccessedAddStep ==
    \E id \in Ids, c \in DOMAIN PruneCallers, k \in {"low", "medium"} :
        /\ FreshId(id)
        /\ Room(MaxMemAdd, "learning", c)
        /\ AddMemory(id, "learning", c, <<>>, k, PruneCallers[c], "/p1")
AccessedSearchKeywordStep ==
    \E scan \in ScanOrders(memories) :
        SearchKeyword("t4", "both", 1, "/p1", scan) /\ AccessAtMost(MaxAccess)
AccessedSearchByTypeStep ==
    \E scan \in ScanOrders(memories) :
        SearchByType("learning", "t7", "both", 1, "/p1", scan) /\ AccessAtMost(MaxAccess)
AccessedGetContextStep ==
    \E scan \in ScanOrders(memories) :
        GetContext(1, "/p1", scan) /\ AccessAtMost(MaxAccess)
AccessedUpdateStep == \E id \in DOMAIN memories : UpdateMemory(id, memories[id].content, NoFilter, NoPath)
AccessedPruneStep == \E days \in {0 - 1, 0}, t \in PruneTiers : Prune(days, days, t, "/p1")
AccessedTickStep == Tick(MaxTimeRank)

NextAccessed ==
    \/ AccessedAddStep
    \/ AccessedSearchKeywordStep
    \/ AccessedSearchByTypeStep
    \/ AccessedGetContextStep
    \/ AccessedUpdateStep
    \/ AccessedPruneStep
    \/ AccessedTickStep

SpecAccessed == Init /\ [][NextAccessed]_vars

\* ---- two stop hooks at once
StopRaceCheckStep ==
    \E p \in Callers, session_id \in {<<"s", "1">>, <<"s", "2">>},
       transcript \in {NoTranscript, Transcript(Message(Repeat("x", 20)), Message(<<"r">>))},
       turn_id \in StopTurns :
        StopCheckMarker(p, session_id, transcript, turn_id)
StopRaceProcessStep == \E p \in Callers : StopProcess(p)

NextStopRace ==
    \/ StopRaceCheckStep
    \/ StopRaceProcessStep

SpecStopRace == Init /\ [][NextStopRace]_vars

\* ---- the hooks of one turn after the other: session start, prompt, stop, end
PromptSessions == {<<"s", "1">>}
PromptDbSessions == {"db1", "db2"}
PromptTurns == {"turn1", "turn2"}
PromptPrompts == {NoMessage, Message(<<"h", "i">>)}
PromptTranscripts ==
    {NoTranscript,
     Transcript(Message(<<"h", "i">>), Message(<<"r">>))}

PromptStartStep ==
    \E session_id \in PromptSessions, db_session \in PromptDbSessions \cup {NoDbSession},
       scan \in ScanOrders(memories) :
        HandleSessionStart(session_id, NoPath, db_session, scan)
PromptSubmitStep ==
    \E session_id \in PromptSessions, extraction \in BOOLEAN, prompt \in PromptPrompts,
       turn_id \in PromptTurns \cup {NoTurn} :
        HandleUserPromptSubmit(session_id, extraction, prompt, turn_id)
PromptStopStep ==
    \E session_id \in PromptSessions, transcript \in PromptTranscripts :
        HandleStopOfSession(session_id, FALSE, transcript, {})
PromptEndStep == \E session_id \in PromptSessions : HandleSessionEnd(session_id)

NextPrompt ==
    \/ PromptStartStep
    \/ PromptSubmitStep
    \/ PromptStopStep
    \/ PromptEndStep

SpecPrompt == Init /\ [][NextPrompt]_vars

\* ---- the hooks of two sessions at once
SessionsSessions == {<<"s", "1">>, <<"s", "2">>}

SessionsStartStep ==
    \E session_id \in SessionsSessions, db_session \in PromptDbSessions \cup {NoDbSession},
       scan \in ScanOrders(memories) :
        HandleSessionStart(session_id, NoPath, db_session, scan)
SessionsPromptStep ==
    \E session_id \in SessionsSessions, turn_id \in {"turn1", NoTurn} :
        HandleUserPromptSubmit(session_id, FALSE, Message(<<"h", "i">>), turn_id)
SessionsStopStep ==
    \E session_id \in SessionsSessions :
        HandleStopOfSession(session_id, FALSE, Transcript(Message(<<"h", "i">>), Message(<<"r">>)), {})
SessionsToolStep ==
    \E session_id \in SessionsSessions :
        /\ Len(host.tool_calls) < MaxRows
        /\ HandlePostToolUse(session_id, "Read")

NextSessions ==
    \/ SessionsStartStep
    \/ SessionsPromptStep
    \/ SessionsStopStep
    \/ SessionsToolStep

SpecSessions == Init /\ [][NextSessions]_vars



\* get-stats from within a directory over a table of global memories and
\* memories of /p1 and /p2: the path is that of the project, none, or one
\* that holds apostrophes.
StatsAdds ==
    {<<"learning", "t4", "low", "global", "/p1">>,
     <<"gotcha", "t7", "high", "project", "/p1">>,
     <<"learning", "t6", "high", "project", "/p2">>}
StatsPaths == {"/p1", NoPath, ApostrophePath, ConditionPath}

StatsAddStep ==
    \E id \in Ids, a \in StatsAdds :
        /\ FreshId(id)
        /\ Room(MaxMemAdd, a[1], a[2])
        /\ AddMemory(id, a[1], a[2], <<>>, a[3], a[4], a[5])

StatsDeleteStep ==
    \E id \in Ids : DeleteMemory(id)

StatsGetStatsStep ==
    \E tier \in {"project", "global", "both"}, project_path \in StatsPaths :
        GetStats(tier, project_path)

NextStats ==
    \/ StatsAddStep
    \/ StatsDeleteStep
    \/ StatsGetStatsStep

SpecStats == Init /\ [][NextStats]_vars


\* Every command of the engine, issued from within the project /p1, over a
\* table of low-confidence global memories and memories of /p1: an update moves a content out of
\* the way of the next add, and the update of that one makes the two collide,
\* so that consolidate finds duplicates.
EngineAddStep ==
    \E id \in Ids, t \in {"project", "global"} :
        /\ FreshId(id)
        /\ Room(MaxMemEngine, "learning", "t4")
        /\ AddMemory(id, "learning", "t4", <<>>, "low", t, "/p1")

EngineUpdateStep ==
    \E id \in Ids, t \in {NoFilter, "project"} : UpdateMemory(id, "t7", t, "/p1")

EngineDeleteStep ==
    \E id \in Ids : DeleteMemory(id)

EngineGetStep ==
    \E id \in Ids : GetMemory(id)

EngineGetStatsStep == GetStats("both", "/p1")

EngineSearchKeywordStep ==
    \E scan \in ScanOrders(memories) :
        /\ SearchKeyword("t0", "both", 1, "/p1", scan)
        /\ AccessAtMost(MaxAccess)

EngineSearchByTypeStep ==
    \E scan \in ScanOrders(memories) :
        /\ SearchByType("learning", NoFilter, "project", MaxLimit, "/p1", scan)
        /\ AccessAtMost(MaxAccess)

EngineGetContextStep ==
    \E scan \in ScanOrders(memories) :
        /\ GetContext(1, "/p1", scan)
        /\ AccessAtMost(MaxAccess)

EngineListRecentStep ==
    \E scan \in ScanOrders(memories) : ListRecent(MaxLimit, "both", "/p1", scan)

EngineConsolidateStep ==
    \E t \in {"both", "project"} : Consolidate(t, "/p1")

\* Every command runs at the same instant, so the thresholds are the days
\* arguments 0, past which no memory is, and -1, past which every memory is.
EnginePruneStep ==
    \E days \in {0 - 1, 0} : Prune(days, days, "both", "/p1")

NextEngine ==
    \/ EngineAddStep
    \/ EngineUpdateStep
    \/ EngineDeleteStep
    \/ EngineGetStep
    \/ EngineGetStatsStep
    \/ EngineSearchKeywordStep
    \/ EngineSearchByTypeStep
    \/ EngineGetContextStep
    \/ EngineListRecentStep
    \/ EngineConsolidateStep
    \/ EnginePruneStep

SpecEngine == Init /\ [][NextEngine]_vars

\* ================================================================== claims
\* Two contents have the same lowercased first-100-character prefix: they
\* agree, letter by letter and ignoring case, on their first 100 characters
\* (on all of them when they are shorter).
SamePrefix(c1, c2) ==
    LET a == Chars(c1)
        b == Chars(c2)
    IN  /\ Min(Len(a), PrefixLen) = Min(Len(b), PrefixLen)
        /\ \A i \in 1..Min(Len(a), PrefixLen) : LowerChar(a[i]) = LowerChar(b[i])

SameAs(c) == {d \in TextNames : SamePrefix(c, d)}

\* For every text, the texts with the same prefix, computed once.
SamePrefixTable ==
    [t0 |-> SameAs("t0") \cup {}, t1 |-> SameAs("t1") \cup {}, t2 |-> SameAs("t2") \cup {}, t3 |-> SameAs("t3") \cup {},
     t4 |-> SameAs("t4") \cup {}, t5 |-> SameAs("t5") \cup {}, t6 |-> SameAs("t6") \cup {},
     t7 |-> SameAs("t7") \cup {}]

\* The stored memories an add of (type, content) collides with.
Colliding(mems, memory_type, content) ==
    {i \in DOMAIN mems :
        mems[i].type = memory_type /\ mems[i].content \in SamePrefixTable[content]}

RankOf(confidence) ==
    CASE confidence = "high" -> 0
      [] confidence = "medium" -> 1
      [] confidence = "low" -> 2

\* Memory m is visible to a caller in `path` reading with `tier`.
Visible(m, tier, path) ==
    CASE tier = "project" -> m.scope = "project" /\ m.project_path = path /\ path # NoPath
      [] tier = "global" -> m.scope = "global"
      [] tier = "both" -> \/ m.scope = "global"
                          \/ m.scope = "project" /\ m.project_path = path /\ path # NoPath

\* The last command was a ranked search that returned a result set.
Searched == last.op \in {"search_keyword", "search_by_type"} /\ last.kind = "success"

\* The ids of the memories that match the last search.
Matching ==
    {i \in DOMAIN pre :
        /\ Visible(pre[i], last.tier, last.path)
        /\ last.op = "search_by_type" => pre[i].type = last.mtype
        /\ last.query # NoFilter => KeywordWhere(pre[i], last.query)}

\* Memory a ranks strictly before memory b.
RanksBefore(a, b) ==
    \/ RankOf(a.confidence) < RankOf(b.confidence)
    \/ RankOf(a.confidence) = RankOf(b.confidence) /\ a.created_at > b.created_at

C8_ReadsInScope ==
    (last.op \in {"search_keyword", "search_by_type", "list_recent", "get_context"}
       /\ last.kind = "success") =>
        \A k \in 1..Len(last.ids) :
            LET m == pre[last.ids[k]]
            IN  /\ last.tier = "project" => m.scope = "project" /\ m.project_path = last.path
                /\ last.tier = "global" => m.scope = "global"
                /\ m.scope = "global" \/ (m.scope = "project" /\ m.project_path = last.path)

\* A read with tier=both by a caller in /p1 returned a memory while the table
\* held a memory of project /p2.
C8_Witness ==
    /\ last.op \in {"search_keyword", "search_by_type", "list_recent", "get_context"}
    /\ last.tier = "both" /\ last.path = "/p1" /\ last.ids # <<>>
    /\ \E i \in DOMAIN pre : pre[i].scope = "project" /\ pre[i].project_path = "/p2"

\* C9: a search returns at most `limit` memories, and they are a prefix of the
\* ranked list of the matching memories in scope: as many as the limit admits,
\* all of them matching, none twice, and no matching memory left out ranks
\* strictly before one that was returned.
C9_LimitedPrefix ==
    Searched =>
        /\ Len(last.ids) <= last.limit
        /\ Len(last.ids) = Min(last.limit, Cardinality(Matching))
        /\ SeqRange(last.ids) \subseteq Matching
        /\ Cardinality(SeqRange(last.ids)) = Len(last.ids)
        /\ \A i \in Matching \ SeqRange(last.ids), j \in SeqRange(last.ids) :
              ~RanksBefore(pre[i], pre[j])

\* A search with limit 1 returned one of two matching memories, and the one
\* left out ranks strictly after it.
C9_Witness ==
    /\ Searched /\ last.limit = 1 /\ Len(last.ids) = 1
    /\ \E i \in Matching : RanksBefore(pre[last.ids[1]], pre[i])

\* C10: search_keyword, search_by_type and get_context add exactly 1 to the
\* access_count of every memory they return and set its accessed_at, and leave
\* every other memory as it was; a call that returns nothing changes nothing.
C10_AccessTracked ==
    last.op \in {"search_keyword", "search_by_type", "get_context"} =>
        /\ DOMAIN memories = DOMAIN pre
        /\ \A i \in DOMAIN pre :
              IF last.kind = "success" /\ i \in SeqRange(last.ids)
              THEN memories[i] = [pre[i] EXCEPT !.access_count = pre[i].access_count + 1,
                                                !.accessed_at = <<last.at>>]
              ELSE memories[i] = pre[i]

\* A search returned two memories, one of them created before the search ran.
C10_Witness ==
    /\ last.op \in {"search_keyword", "search_by_type", "get_context"}
    /\ Len(last.ids) = 2
    /\ \E k \in 1..2 : pre[last.ids[k]].created_at < last.at

\* ------------------------------------------------------------- retention
\* The last command was a tiered prune.
Pruned == last.op = "prune"

\* The age, in days, a memory had when the last command ran.
AgeOf(m) == last.at - m.created_at

\* Memory m lies within the scope filter of the last bulk deletion.
InFilter(m) ==
    CASE last.tier = "project" ->
             m.scope = "project" /\ m.project_path = last.path /\ last.path # NoPath
      [] last.tier = "global" -> m.scope = "global"
      [] OTHER -> TRUE

\* The memories the last command removed from the table.
Deleted == DOMAIN pre \ DOMAIN memories

\* C2: tiered prune never deletes a high-confidence memory, whatever the
\* thresholds, its age and its access_count: it is still in the table,
\* unchanged, and in neither list of pruned ids.
C2_HighNeverPruned ==
    Pruned =>
        \A i \in DOMAIN pre :
            pre[i].confidence = "high" =>
                /\ i \in DOMAIN memories
                /\ memories[i] = pre[i]
                /\ i \notin last.low_pruned_ids \cup last.medium_pruned_ids

\* A prune ran over a never accessed high-confidence memory in its scope that
\* was older than both thresholds, and deleted another memory.
C2_Witness ==
    /\ Pruned /\ Deleted # {}
    /\ \E i \in DOMAIN pre :
          /\ pre[i].confidence = "high" /\ pre[i].access_count = 0 /\ InFilter(pre[i])
          /\ AgeOf(pre[i]) > last.low_days /\ AgeOf(pre[i]) > last.medium_days

\* C3: each confidence has its own threshold.  Of the never accessed memories
\* in the scope of prune(low_days, medium_days): with low_days < medium_days a
\* medium one older than low_days but not older than medium_days survives and
\* a medium one older than medium_days is deleted and listed as medium-pruned;
\* a low one older than low_days is deleted and listed as low-pruned.
C3_TieredThresholds ==
    Pruned =>
        \A i \in DOMAIN pre :
            (pre[i].access_count = 0 /\ InFilter(pre[i])) =>
                /\ (/\ last.low_days < last.medium_days
                    /\ pre[i].confidence = "medium"
                    /\ AgeOf(pre[i]) > last.low_days
                    /\ AgeOf(pre[i]) <= last.medium_days) => i \in DOMAIN memories
                /\ (/\ last.low_days < last.medium_days
                    /\ pre[i].confidence = "medium"
                    /\ AgeOf(pre[i]) > last.medium_days) =>
                        i \in Deleted /\ i \in last.medium_pruned_ids
                /\ (pre[i].confidence = "low" /\ AgeOf(pre[i]) > last.low_days) =>
                        i \in Deleted /\ i \in last.low_pruned_ids

\* A prune with low_days < medium_days kept a never accessed medium memory
\* older than low_days and deleted one older than medium_days.
C3_Witness ==
    /\ Pruned /\ last.low_days < last.medium_days
    /\ \E i \in DOMAIN memories, j \in Deleted :
          /\ pre[i].confidence = "medium" /\ pre[i].access_count = 0 /\ InFilter(pre[i])
          /\ AgeOf(pre[i]) > last.low_days /\ AgeOf(pre[i]) <= last.medium_days
          /\ pre[j].confidence = "medium" /\ AgeOf(pre[j]) > last.medium_days

\* The threshold prune(low_days, medium_days) applies to a confidence.
ThresholdOf(confidence) == IF confidence = "low" THEN last.low_days ELSE last.medium_days

\* C4: prune deletes a memory only if its access_count is 0 and it is strictly
\* older than the threshold of its own confidence; every other memory is still
\* in the table, unchanged.
C4_PruneOnlyUnusedAndOld ==
    Pruned =>
        /\ \A i \in Deleted :
              /\ pre[i].confidence \in {"low", "medium"}
              /\ pre[i].access_count = 0
              /\ AgeOf(pre[i]) > ThresholdOf(pre[i].confidence)
        /\ \A i \in DOMAIN memories : i \in DOMAIN pre /\ memories[i] = pre[i]

\* A prune deleted a memory and kept a low-confidence memory in its scope that
\* was older than both thresholds but had been accessed.
C4_Witness ==
    /\ Pruned /\ Deleted # {}
    /\ \E i \in DOMAIN memories :
          /\ pre[i].confidence = "low" /\ pre[i].access_count > 0 /\ InFilter(pre[i])
          /\ AgeOf(pre[i]) > last.low_days /\ AgeOf(pre[i]) > last.medium_days

\* ----------------------------------------------------------- consolidate
\* The last command was a consolidate.
Consolidated == last.op = "consolidate"

\* Memories a and b of the table before the last command are duplicates of
\* each other within the scope filter of the command.
DuplicatePair(a, b) ==
    /\ a # b
    /\ pre[a].type = pre[b].type
    /\ pre[a].content \in SamePrefixTable[pre[b].content]
    /\ InFilter(pre[a]) /\ InFilter(pre[b])

\* The in-scope duplicates of memory i, itself included.
GroupOf(i) == {i} \cup {j \in DOMAIN pre : DuplicatePair(i, j)}

C6_ConsolidateIdempotent ==
    Consolidated =>
        /\ last.rerun =>
              /\ last.duplicate_ids = EmptyBag
              /\ last.count = 0
              /\ memories = pre
        /\ (\E a \in DOMAIN pre, b \in DOMAIN pre : DuplicatePair(a, b)) =>
              /\ last.duplicate_ids # EmptyBag
              /\ last.count > 0

\* A consolidate ran again right after one that had removed the two later
\* members of a group of three.
C6_Witness ==
    /\ Consolidated /\ last.rerun /\ last.first_removed >= 2
    /\ Cardinality(DOMAIN memories) = 1

\* ---------------------------------------------------------- list_recent
\* The last command was a list_recent that returned its page.
Listed == last.op = "list_recent" /\ last.kind = "success"

\* C11: list_recent marks every memory it returns as accessed: the
\* access_count of each returned memory is one greater than before the call
\* and its accessed_at is set.
C11_ListRecentMarksAccessed ==
    Listed =>
        \A i \in SeqRange(last.ids) :
            /\ memories[i].access_count = pre[i].access_count + 1
            /\ memories[i].accessed_at # <<>>

\* What list_recent does instead: it returns its page and writes nothing.
C11_ListRecentWritesNothing ==
    Listed => memories = pre

\* A list_recent returned a memory.
C11_Witness ==
    Listed /\ last.ids # <<>>

\* -------------------------------------------------------- access counters
\* C12: the access_count of every memory is at least 0 and never decreases
\* while the memory exists: a memory the last command inserted has count 0, and
\* the count of any other is what it was before the command, or one more.
C12_AccessCountMonotone ==
    \A i \in DOMAIN memories :
        /\ memories[i].access_count >= 0
        /\ IF i \in DOMAIN pre
           THEN \/ memories[i].access_count = pre[i].access_count
                \/ memories[i].access_count = pre[i].access_count + 1
           ELSE memories[i].access_count = 0

\* An update has rewritten a memory that had been accessed, next to a second
\* memory.
C12_Witness ==
    /\ last.op = "update" /\ last.kind = "success"
    /\ memories[last.id].access_count > 0
    /\ Cardinality(DOMAIN memories) = 2

\* C13: add, update, get, get_stats, consolidate and prune leave the
\* access_count and the accessed_at of every memory that is still in the table
\* as they were, and get_stats leaves the whole table as it was.
C13_OnlyReadsTrackAccess ==
    /\ last.op \in {"add", "update", "get", "get_stats", "consolidate", "prune"} =>
          \A i \in DOMAIN memories \cap DOMAIN pre :
              /\ memories[i].access_count = pre[i].access_count
              /\ memories[i].accessed_at = pre[i].accessed_at
    /\ last.op = "get_stats" => memories = pre

\* A get returned a memory that had been accessed once.
C13_Witness ==
    /\ last.op = "get" /\ last.kind = "success"
    /\ memories[last.id].access_count = 1
    /\ memories[last.id].accessed_at # <<>>

\* ---------------------------------------------------------- get_context
\* The last command was a get_context that returned its entries.
Contexted == last.op = "get_context" /\ last.kind = "success"

\* Memory a comes strictly before memory b in the order of get_context:
\* confidence rank, then access_count descending, then created_at descending.
ContextBefore(a, b) ==
    \/ RankOf(a.confidence) < RankOf(b.confidence)
    \/ /\ RankOf(a.confidence) = RankOf(b.confidence)
       /\ a.access_count > b.access_count
    \/ /\ RankOf(a.confidence) = RankOf(b.confidence)
       /\ a.access_count = b.access_count
       /\ a.created_at > b.created_at

\* C14: get_context returns at most `limit` memories, the first of the visible
\* ones in the order confidence rank, access_count descending, created_at
\* descending: of two entries of one confidence the one with the larger
\* access_count comes first, even when the other is newer; the entries are in
\* that order by their counts before the call, and the access tracking of the
\* call leaves them in that order.
C14_ContextOrder ==
    Contexted =>
        LET shown == SeqRange(last.ids)
            visible == {i \in DOMAIN pre : Visible(pre[i], "both", last.path)}
        IN  /\ Len(last.ids) <= last.limit
            /\ shown \subseteq visible
            /\ Len(last.ids) < last.limit => shown = visible
            /\ \A k \in 1..(Len(last.ids) - 1) :
                  /\ ~ContextBefore(pre[last.ids[k + 1]], pre[last.ids[k]])
                  /\ ~ContextBefore(memories[last.ids[k + 1]], memories[last.ids[k]])
            /\ \A i \in visible \ shown, r \in shown : ~ContextBefore(pre[i], pre[r])

\* A get_context returned two memories of one confidence, the older one, which
\* had been returned more often, before the newer one.
C14_Witness ==
    /\ Contexted /\ Len(last.ids) = 2
    /\ LET a == pre[last.ids[1]]
           b == pre[last.ids[2]]
       IN  /\ a.confidence = b.confidence
           /\ a.access_count > b.access_count
           /\ a.created_at < b.created_at

\* C15: list_recent returns at most `limit` memories, the newest of those in
\* the scope of its tier, ordered by created_at descending whatever their
\* confidence, and its total is the number of all stored memories in that
\* scope, whatever the limit and the length of the page.
C15_ListRecentPage ==
    Listed =>
        LET shown == SeqRange(last.ids)
            inscope == {i \in DOMAIN pre : Visible(pre[i], last.tier, last.path)}
        IN  /\ Len(last.ids) <= last.limit
            /\ shown \subseteq inscope
            /\ Len(last.ids) < last.limit => shown = inscope
            /\ \A k \in 1..(Len(last.ids) - 1) :
                  pre[last.ids[k]].created_at >= pre[last.ids[k + 1]].created_at
            /\ \A i \in inscope \ shown, r \in shown : pre[i].created_at <= pre[r].created_at
            /\ last.total = Cardinality(inscope)

\* A list_recent with limit 1 returned a low-confidence memory, left out an
\* older high-confidence one of its scope, and reported a total of 2.
C15_Witness ==
    /\ Listed /\ last.limit = 1 /\ Len(last.ids) = 1 /\ last.total = 2
    /\ pre[last.ids[1]].confidence = "low"
    /\ \E i \in DOMAIN pre :
          /\ Visible(pre[i], last.tier, last.path)
          /\ pre[i].confidence = "high"
          /\ pre[i].created_at < pre[last.ids[1]].created_at

\* ----------------------------------------------------------------- writes
\* C16: every stored memory with scope = global has no project path.
C16_GlobalHasNoPath ==
    \A i \in DOMAIN memories :
        memories[i].scope = "global" => memories[i].project_path = NoPath

\* C17: an add resolves the tier global to the global scope and the tiers
\* project and both to the project scope; the memory it stores has the
\* caller's path when its scope is project, and no path when its scope is
\* global, whatever path the caller supplied.
C17_AddResolvesTier ==
    (last.op = "add" /\ last.kind = "success") =>
        /\ last.id \in DOMAIN memories
        /\ memories[last.id].scope = IF last.tier = "global" THEN "global" ELSE "project"
        /\ memories[last.id].project_path = IF last.tier = "global" THEN NoPath ELSE last.path

\* An add with the tier both stored a memory from within /p1, next to a global
\* memory that was added from within /p1 as well.
C17_Witness ==
    /\ last.op = "add" /\ last.kind = "success" /\ last.tier = "both" /\ last.path = "/p1"
    /\ \E i \in DOMAIN pre : pre[i].scope = "global" /\ pre[i].created_at = last.at

\* C18: update and delete of an id that is not in the table answer not found
\* and leave the table as it was; of an id that is in the table they answer
\* success, the update rewrites that memory only, the delete removes that
\* memory only, and a get of the id finds nothing afterwards.  A get answers
\* success exactly for an id that is in the table.
C18_MissingIdIsNotFound ==
    /\ last.op \in {"update", "delete"} =>
          IF last.id \in DOMAIN pre
          THEN /\ last.kind = "success"
               /\ \A i \in DOMAIN pre \ {last.id} : i \in DOMAIN memories /\ memories[i] = pre[i]
               /\ last.op = "update" =>
                     /\ DOMAIN memories = DOMAIN pre
                     /\ memories[last.id].content = last.content
               /\ last.op = "delete" =>
                     /\ DOMAIN memories = DOMAIN pre \ {last.id}
                     /\ get_memory(memories, last.id) = <<>>
          ELSE /\ last.kind = "not_found"
               /\ memories = pre
    /\ last.op = "get" =>
          /\ last.kind = IF last.id \in DOMAIN memories THEN "success" ELSE "not_found"
          /\ last.kind = "success" => last.found = <<memories[last.id]>>

\* A delete of an id that is not in the table, which holds another memory.
C18_Witness ==
    /\ last.op = "delete" /\ last.kind = "not_found"
    /\ last.id \notin DOMAIN pre
    /\ memories # <<>>

\* ----------------------------------------------------------- supersession
\* The last command was an add that marked a stored memory as superseded.
Superseded ==
    /\ last.op = "add" /\ last.kind = "success"
    /\ last.supersedes \in DOMAIN pre

\* The three supersession columns of a memory.
Retirement(m) == <<m.is_active, m.superseded_by, m.superseded_at>>

\* C19: for every stored memory is_active = false holds exactly when
\* superseded_by is set, and superseded_by is set exactly when superseded_at
\* is set.  An add that supersedes a memory sets the three together, to
\* inactive, the new id and the time of the add, and no other command changes
\* any of them in a memory it leaves in the table.
C19_SupersededTogether ==
    /\ \A i \in DOMAIN memories :
          /\ ~memories[i].is_active <=> memories[i].superseded_by # NoId
          /\ memories[i].superseded_by # NoId <=> memories[i].superseded_at # <<>>
    /\ \A i \in DOMAIN memories \cap DOMAIN pre :
          IF Superseded /\ i = last.supersedes
          THEN Retirement(memories[i]) = <<FALSE, last.id, <<last.at>> >>
          ELSE Retirement(memories[i]) = Retirement(pre[i])

\* An update has rewritten a superseded memory, which is still inactive and
\* still refers to the memory that replaced it.
C19_Witness ==
    /\ last.op = "update" /\ last.kind = "success"
    /\ ~memories[last.id].is_active
    /\ memories[last.id].superseded_by \in DOMAIN memories

\* C20: a superseded memory stays in the table: the add that supersedes X
\* leaves X with every column but the three supersession columns as it was,
\* a get of a superseded memory returns it, and a superseded memory leaves the
\* table only by a delete, a consolidate, a prune or a purge.
C20_SupersededIsKept ==
    /\ Superseded =>
          LET x == last.supersedes
          IN  /\ x \in DOMAIN memories
              /\ memories[x] = [pre[x] EXCEPT !.is_active = memories[x].is_active,
                                               !.superseded_by = memories[x].superseded_by,
                                               !.superseded_at = memories[x].superseded_at]
              /\ get_memory(memories, x) = <<memories[x]>>
    /\ (last.op = "get" /\ last.id \in DOMAIN pre) =>
          last.kind = "success" /\ last.found = <<pre[last.id]>>
    /\ \A i \in DOMAIN pre \ DOMAIN memories :
          ~pre[i].is_active => last.op \in {"delete", "consolidate", "prune", "purge"}

\* A get returned a memory that had been superseded.
C20_Witness ==
    /\ last.op = "get" /\ last.kind = "success"
    /\ ~memories[last.id].is_active
    /\ last.found = <<memories[last.id]>>

\* ------------------------------------------------------------------- C21
\* The memories a chain response names besides the memory itself.
Neighbours(chain) == chain.predecessors \cup chain.successors

\* C21: show_chain is single-hop.  The response of show_chain(id) has as
\* predecessors exactly the memories whose superseded_by is id and as
\* successors exactly the memory id's own superseded_by names, none when it
\* is unset.  For X superseded by Y with nothing pointing at X and Y not
\* superseded, show_chain(X) has no predecessor and the successor Y, and
\* show_chain(Y) has the predecessor X and no successor; for a chain
\* A -> B -> C, show_chain(A) does not name C and show_chain(C) does not
\* name A.
C21_ChainSingleHop ==
    /\ (last.op = "chain" /\ last.kind = "success") =>
          /\ Len(last.found) = 1
          /\ last.found[1].memory = pre[last.id]
          /\ \A i \in Ids :
                /\ i \in last.found[1].predecessors <=>
                      (i \in DOMAIN pre /\ pre[i].superseded_by = last.id)
                /\ i \in last.found[1].successors <=>
                      (i \in DOMAIN pre /\ pre[last.id].superseded_by = i)
          /\ Cardinality(last.found[1].successors) <= 1
          /\ pre[last.id].superseded_by = NoId => last.found[1].successors = {}
    /\ \A x, y \in DOMAIN memories :
          memories[x].superseded_by = y =>
              /\ show_chain(memories, x).successors = {y}
              /\ x \in show_chain(memories, y).predecessors
              /\ (\A z \in DOMAIN memories : memories[z].superseded_by # x) =>
                    show_chain(memories, x).predecessors = {}
              /\ (memories[y].superseded_by = NoId
                  /\ \A z \in DOMAIN memories \ {x} : memories[z].superseded_by # y) =>
                    /\ show_chain(memories, y).predecessors = {x}
                    /\ show_chain(memories, y).successors = {}
    /\ \A a, b, c \in DOMAIN memories :
          (a # c /\ memories[a].superseded_by = b /\ memories[b].superseded_by = c) =>
              /\ c \notin Neighbours(show_chain(memories, a))
              /\ a \notin Neighbours(show_chain(memories, c))

\* show_chain has answered for the first memory of a chain A -> B -> C.
C21_Witness ==
    /\ last.op = "chain" /\ last.kind = "success"
    /\ \E b, c \in DOMAIN memories :
          /\ Cardinality({last.id, b, c}) = 3
          /\ memories[last.id].superseded_by = b
          /\ memories[b].superseded_by = c
          /\ last.found[1].successors = {b}
          /\ last.found[1].predecessors = {}

\* ------------------------------------------------------------------- C22
Purged == last.op = "purge"

\* The time, in days, for which memory m had been superseded when the last
\* command ran.
SupersededFor(m) == last.at - m.superseded_at[1]

\* C22: purge_superseded(days, scope) deletes exactly the memories within
\* the scope filter that are superseded and whose superseded_at is more than
\* `days` days old, and returns their ids.  A memory that was never
\* superseded is not deleted whatever its age, and one superseded more
\* recently than the threshold stays.
C22_PurgeOnlyOldSuperseded ==
    Purged =>
        /\ last.kind = "success"
        /\ Deleted = last.purged_ids
        /\ last.count = Cardinality(last.purged_ids)
        /\ \A i \in DOMAIN pre :
              /\ i \in last.purged_ids <=>
                    /\ pre[i].superseded_by # NoId
                    /\ pre[i].superseded_at # <<>>
                    /\ SupersededFor(pre[i]) > last.low_days
                    /\ InFilter(pre[i])
              /\ pre[i].superseded_by = NoId => i \in DOMAIN memories
              /\ (pre[i].superseded_at # <<>> /\ SupersededFor(pre[i]) <= last.low_days) =>
                    i \in DOMAIN memories
              /\ i \in DOMAIN memories => memories[i] = pre[i]
        /\ DOMAIN memories \subseteq DOMAIN pre

\* A purge has deleted a memory and kept two within its scope filter: one
\* that is active, and one older than the threshold that was superseded no
\* longer ago than the threshold.
C22_Witness ==
    /\ Purged
    /\ last.purged_ids # {}
    /\ \E i \in DOMAIN memories : memories[i].is_active /\ InFilter(memories[i])
    /\ \E i \in DOMAIN memories :
          /\ ~memories[i].is_active
          /\ InFilter(memories[i])
          /\ AgeOf(memories[i]) > last.low_days
          /\ SupersededFor(memories[i]) <= last.low_days

\* ------------------------------------------------------------------- C23
\* The last command was one of the bulk deletions.
Swept == last.op \in {"consolidate", "prune", "purge"}

\* The ids the last bulk deletion returned.
SweptIds ==
    BagToSet(last.duplicate_ids) \cup last.low_pruned_ids \cup last.medium_pruned_ids
        \cup last.purged_ids

\* Memory m lies outside the project or global filter of the last command.
OutOfScope(m) ==
    CASE last.tier = "project" -> m.scope = "global" \/ m.project_path # last.path
      [] last.tier = "global" -> m.scope = "project"
      [] OTHER -> FALSE

\* C23: consolidate, prune and purge_superseded never delete a memory outside
\* their scope filter.  With the project filter no global memory and no
\* memory of another project_path is deleted, with the global filter no
\* project memory is, and consolidate deletes a memory only as the duplicate
\* of a memory that lies within the filter as well.
C23_BulkDeletesInScope ==
    Swept =>
        /\ \A i \in DOMAIN pre :
              OutOfScope(pre[i]) =>
                  /\ i \in DOMAIN memories
                  /\ memories[i] = pre[i]
                  /\ i \notin SweptIds
        /\ Consolidated =>
              \A b \in Deleted :
                  \E a \in DOMAIN pre :
                      /\ a < b
                      /\ pre[a].type = pre[b].type
                      /\ pre[a].content \in SamePrefixTable[pre[b].content]
                      /\ ~OutOfScope(pre[a])

\* A consolidate with the project filter has found a memory of /p1 with a
\* duplicate of a larger id that lies outside /p1, and has kept both.
C23_Witness ==
    /\ Consolidated /\ last.tier = "project"
    /\ \E a, b \in DOMAIN memories :
          /\ a < b
          /\ pre[a].type = pre[b].type
          /\ pre[a].content \in SamePrefixTable[pre[b].content]
          /\ ~OutOfScope(pre[a])
          /\ OutOfScope(pre[b])

\* ------------------------------------------------------------------- C24
\* The adds in flight whose duplicate check has found nothing and whose
\* insert has not run.
PastCheck == {p \in Callers : calls[p].op = "add" /\ calls[p].pc = "checked"}

\* The adds that have returned Success.
Succeeded == {p \in Callers : calls[p].op = "add" /\ calls[p].kind = "success"}

\* C24: nothing holds the duplicate check and the insert of add together.
\* An add that is past its check inserts its memory and returns Success
\* whatever has been inserted since the check, while the other caller's add
\* stays where it is; so two adds of the same type and content on a table
\* with no matching memory can both pass the check and both insert, and the
\* table then has two memories of the same type and prefix and neither
\* caller has a Duplicate result.
C24_CheckAndInsertNotAtomic ==
    [][\A p \in PastCheck :
          calls'[p] # calls[p] =>
              /\ calls'[p].kind = "success"
              /\ calls'[p].id \in DOMAIN memories' \ DOMAIN memories
              /\ memories'[calls'[p].id].type = calls[p].mtype
              /\ memories'[calls'[p].id].content = calls[p].content
              /\ \A i \in DOMAIN memories : memories'[i] = memories[i]
              /\ \A q \in Callers \ {p} : calls'[q] = calls[q]]_vars

\* Both callers have added the same type and content to the empty table and
\* both have Success: the table has their two memories, duplicates of each
\* other.
C24_Witness ==
    /\ Succeeded = Callers
    /\ \A p, q \in Callers :
          /\ calls[p].mtype = calls[q].mtype
          /\ calls[p].content = calls[q].content
    /\ \E i, j \in DOMAIN memories :
          /\ i # j
          /\ {i, j} = {calls[p].id : p \in Callers}
          /\ memories[i].type = memories[j].type
          /\ memories[i].content \in SamePrefixTable[memories[j].content]

\* ------------------------------------------------------------------- C25
\* The search commands whose access tracking failed with a storage error.
TrackingFailed == {p \in Callers : calls[p].marked = "failed"}

\* Row m with its access tracking columns blanked.
Untracked(m) == [m EXCEPT !.access_count = 0, !.accessed_at = <<>>]

\* C25: access tracking is best-effort.  When the access tracking UPDATE of
\* search_keyword, search_by_type or get_context fails with a storage error,
\* the command still returns the rows it has read.
C25_TrackingIsBestEffort ==
    \A p \in TrackingFailed :
        /\ calls[p].kind = "success"
        /\ calls[p].ids = calls[p].read

\* C25, the part on the stored data: the access tracking step of a search
\* command, whether it succeeds, fails or is never reached because the
\* process stops, adds and removes no memory and changes no column other
\* than access_count and accessed_at; when it fails or is not reached it
\* changes nothing.
C25_TrackingKeepsData ==
    [][\A p \in Callers :
          (calls[p].pc = "read" /\ calls'[p] # calls[p]) =>
              /\ DOMAIN memories' = DOMAIN memories
              /\ \A i \in DOMAIN memories : Untracked(memories'[i]) = Untracked(memories[i])
              /\ calls'[p].marked # "ok" => memories' = memories]_vars

\* The access tracking of a search that had read a memory has failed, and
\* another search's has stopped short; the memories are as they were.
C25_Witness ==
    /\ \E p \in TrackingFailed : calls[p].read # <<>>
    /\ \A i \in DOMAIN memories : memories[i].access_count = 0
    /\ DOMAIN memories # {}

\* ------------------------------------------------------------------- C26
\* The consolidates that have returned.
ConsolidatesDone == {p \in Callers : calls[p].op = "consolidate" /\ calls[p].pc = "done"}

\* C26: the deletion of consolidate is atomic.  A consolidate that has
\* returned has deleted every memory it selected or, when it returned a
\* storage error, none of them; and it has deleted no memory that another
\* writer changed between its selection and its deletion.
C26_ConsolidateDeletesAtomically ==
    \A p \in ConsolidatesDone :
        /\ calls[p].kind = "error" => DOMAIN calls[p].removed = {}
        /\ calls[p].kind = "success" =>
              \A i \in DOMAIN calls[p].selected :
                  i \in DOMAIN calls[p].removed \/ i \notin DOMAIN memories
        /\ \A i \in DOMAIN calls[p].removed : calls[p].removed[i] = calls[p].selected[i]

\* ------------------------------------------------------------------- C27
DataPruned == last.op = "prune_data"

\* The threshold the last lifecycle prune was given for a category.
GivenDays(category) ==
    CASE category = "tool_calls" -> last.found[1].tool_calls_days
      [] category = "turns" -> last.found[1].turns_days
      [] category = "sessions" -> last.found[1].sessions_days

\* The count the last lifecycle prune reported for a category.
ReportedPruned(category) ==
    CASE category = "tool_calls" -> last.found[1].tool_calls_pruned
      [] category = "turns" -> last.found[1].turns_pruned
      [] category = "sessions" -> last.found[1].sessions_pruned

\* The rows of a category that were older than the given threshold, an i64
\* number of days, when the last lifecycle prune ran: past a threshold of
\* 2^32 days or more no row is.
Due(category) ==
    {i \in DOMAIN last.found[1].before[category] :
        /\ GivenDays(category).hi <= 0
        /\ \/ GivenDays(category).hi < 0
           \/ last.found[1].before[category][i] < last.at - GivenDays(category).lo}

\* What C27 asks of the last lifecycle prune.
PruneDataFaithful ==
    /\ last.kind = "success"
    /\ \A c \in Categories :
          /\ ReportedPruned(c) = Cardinality(Due(c))
          /\ DOMAIN lifecycle[c] =
                IF last.found[1].dry_run
                THEN DOMAIN last.found[1].before[c]
                ELSE DOMAIN last.found[1].before[c] \ Due(c)
          /\ \A i \in DOMAIN lifecycle[c] : lifecycle[c][i] = last.found[1].before[c][i]

\* C27: prune_data with dry_run set changes no tool call, turn or session and
\* reports the three counts that a run without dry_run on the same tables and
\* thresholds would delete; without dry_run exactly the rows older than their
\* category's threshold are deleted, and the three counts are reported.
C27_PruneDataDryRunFaithful == DataPruned => PruneDataFaithful

\* C27 for thresholds that an i32 holds: the dry run changes nothing and
\* counts what the run deletes, and the run deletes exactly the rows older
\* than their category's threshold.
C27_PruneDataWithinI32 ==
    (DataPruned /\ \A c \in Categories : GivenDays(c).hi = 0) => PruneDataFaithful

\* A dry run with thresholds that an i32 holds has counted a row of one
\* category, has left it in its table, and has not counted a younger row of
\* another category.
C27_Witness ==
    /\ DataPruned /\ last.found[1].dry_run
    /\ \A c \in Categories : GivenDays(c).hi = 0
    /\ \E c, d \in Categories :
          /\ c # d
          /\ ReportedPruned(c) > 0 /\ Due(c) \subseteq DOMAIN lifecycle[c]
          /\ ReportedPruned(d) = 0 /\ DOMAIN lifecycle[d] # {}
          /\ GivenDays(d) = GivenDays(c)

\* ------------------------------------------------------------------- C28
\* The error each enum rejects a string with.
InvalidError(enum) ==
    CASE enum = "MemoryType" -> "InvalidMemoryType"
      [] enum = "Confidence" -> "InvalidConfidence"
      [] enum = "Scope" -> "InvalidScope"
      [] enum = "Tier" -> "InvalidTier"

\* String s is the literal w in some mix of upper and lower case.
CaseVariantOf(s, w) ==
    /\ Len(s) = Len(w)
    /\ \A i \in 1..Len(w) :
          \/ s[i] = w[i]
          \/ \E k \in 1..Len(LowerLetters) : w[i] = LowerLetters[k] /\ s[i] = UpperLetters[k]

\* C28: for MemoryType, Confidence, Scope and Tier parsing is the
\* case-insensitive inverse of as_str.  parse(as_str(v)) = v for every
\* variant; a string that is the name of a variant in any mix of upper and
\* lower case parses to that variant; every other string, the empty one and
\* "both" for Scope among them, is rejected with the Invalid* error of the
\* enum.
C28_ParseInvertsAsStr ==
    /\ last.op = "as_str" =>
          last.found[3] = [ok |-> TRUE, value |-> last.found[1]]
    /\ last.op = "parse" =>
          LET s == last.found[1]
              named == {v \in Variants(last.mtype) : CaseVariantOf(s, as_str(last.mtype, v))}
          IN  /\ Cardinality(named) <= 1
              /\ \A v \in named : last.found[2] = [ok |-> TRUE, value |-> v]
              /\ named = {} =>
                    last.found[2] = [ok |-> FALSE, error |-> InvalidError(last.mtype), arg |-> s]
    /\ (last.op = "parse" /\ last.mtype = "Scope"
        /\ CaseVariantOf(last.found[1], Spell("both"))) =>
          ~last.found[2].ok

\* A name written in mixed case has been parsed to its variant.
C28_Witness ==
    /\ last.op = "parse" /\ last.mtype = "MemoryType"
    /\ last.found[1] = <<"A", "r", "c", "h", "i", "t", "e", "c", "t", "u", "r", "e">>
    /\ last.found[2] = [ok |-> TRUE, value |-> "Architecture"]


\* C29: the summary of a content is the content itself when the content has
\* at most 100 characters, and otherwise its first 97 characters followed
\* by "...", 100 characters in all; to_summary, the search result item and
\* the duplicate result of add derive the same summary, and no summary is
\* longer than 100 characters.
Summarised == last.op \in {"to_summary", "search_item", "duplicate_summary"}

SummaryByCharacters(content) ==
    IF Len(content) <= 100 THEN content ELSE SubSeq(content, 1, 97) \o Ellipsis

SummaryAsClaimed(content, summary) ==
    /\ ~summary.panic
    /\ summary.value = SummaryByCharacters(content)
    /\ Len(summary.value) <= 100
    /\ Len(content) > 100 => Len(summary.value) = 100
    /\ summary = to_summary(content)
    /\ summary = MemorySearchItem_from(content)
    /\ summary = DuplicateInfo_summary(content)

IsAscii(content) == \A i \in 1..Len(content) : len_utf8(content[i]) = 1

C29_SummaryByCharacters ==
    Summarised => SummaryAsClaimed(last.found[1], last.found[2])

\* C29, for contents of ASCII characters, where characters and bytes are the
\* same; for every content the three derivations agree and a summary that
\* is returned has at most 100 characters.
C29_SummaryOfAsciiContent ==
    Summarised =>
        /\ IsAscii(last.found[1]) => SummaryAsClaimed(last.found[1], last.found[2])
        /\ last.found[2] = to_summary(last.found[1])
        /\ last.found[2] = MemorySearchItem_from(last.found[1])
        /\ last.found[2] = DuplicateInfo_summary(last.found[1])
        /\ ~last.found[2].panic => Len(last.found[2].value) <= 100

C29_Witness ==
    /\ last.op = "duplicate_summary"
    /\ IsAscii(last.found[1])
    /\ Len(last.found[1]) = 101
    /\ Len(last.found[2].value) = 100
    /\ last.found[2].value # last.found[1]


\* C30: the stop hook processes a turn at most once per marker.  A call of
\* handle_stop that finds the marker of its session approves and neither
\* reads the transcript, nor updates the turn, nor spawns an extraction; a
\* call that does not find it leaves the marker behind, with content "1";
\* so the second of two calls in a row for one session does nothing.
Stopped == last.op = "stop"

StopMarker == get_marker_file(claude_session_id(last.found[1].session_id))

StopDidNothing ==
    /\ last.found[1].result = Ok(approve)
    /\ ~last.found[1].read_transcript
    /\ ~last.found[1].updated_turn
    /\ ~last.found[1].spawned
    /\ host = last.found[1].before

StopSkipsOnMarker == last.found[1].marker_existed => StopDidNothing

StopLeavesMarker ==
    ~last.found[1].marker_existed => Exists(host.files, StopMarker) /\ host.files[StopMarker] = "1"

C30_StopOncePerMarker ==
    Stopped =>
        /\ StopSkipsOnMarker
        /\ StopLeavesMarker
        /\ last.rerun => StopDidNothing

\* C30, for the calls outside an extraction instance whose marker lies in
\* /tmp itself; an extraction instance does nothing at all, marker or not.
C30_StopOncePerWritableMarker ==
    Stopped =>
        /\ StopSkipsOnMarker
        /\ last.found[1].extraction => StopDidNothing
        /\ (~last.found[1].extraction /\ Parent(StopMarker) \in Directories) =>
              /\ StopLeavesMarker
              /\ last.rerun => StopDidNothing

C30_Witness ==
    /\ Stopped
    /\ last.rerun
    /\ ~last.found[1].extraction
    /\ last.found[1].marker_existed
    /\ should_extract(last.found[1].transcript.user.text, last.found[1].transcript.assistant.text)
    /\ last.found[1].turn_id # NoTurn
    /\ Cardinality(host.extractions) = 1
    /\ StopDidNothing


\* C31: handle_stop never blocks.  On every path, the failed update of the
\* turn and the failed spawn of the extraction included, it returns Ok with
\* the decision "approve" and no reason.
C31_StopAlwaysApproves ==
    Stopped =>
        /\ last.found[1].result.ok
        /\ last.found[1].result.value.decision = "approve"
        /\ last.found[1].result.value.reason = NoReason

C31_Witness ==
    /\ Stopped
    /\ ~last.found[1].marker_existed
    /\ last.found[1].failing = StopCommands
    /\ last.found[1].updated_turn
    /\ last.found[1].spawned
    /\ host.responses = last.found[1].before.responses
    /\ host.extractions = last.found[1].before.extractions
    /\ last.found[1].result = Ok(approve)

\* ---------------------------------------------------------------- C32
\* The command was handle_user_prompt_submit going past its early returns,
\* for a session whose stop marker a stop hook had written before it.
PromptedAfterStop ==
    /\ last.op = "user_prompt_submit"
    /\ last.found[1].cleared
    /\ Exists(last.found[1].before.files, get_marker_file(last.found[1].session_id))

\* The step is the stop hook of the session of the command before it.
StopsNext ==
    /\ last'.op = "stop"
    /\ last'.found[1].session_id = last.found[1].session_id
    /\ ~last'.found[1].extraction

\* The stop hook of the step went past the check of the marker, and saved
\* the response of the transcript to the turn the prompt created.
StopRecordsNewTurn ==
    /\ ~last'.found[1].marker_existed
    /\ (/\ last.found[1].turn_id # NoTurn
        /\ last'.found[1].transcript.user.some
        /\ last'.found[1].transcript.assistant.some)
       => /\ last.found[1].turn_id \in DOMAIN host'.responses
          /\ host'.responses[last.found[1].turn_id] = last'.found[1].transcript.assistant.text

\* C32 as claimed: in the sequence stop, user-prompt-submit, stop for one
\* session, the second stop hook is not skipped by the marker check and
\* records the assistant response of the new turn.
C32_PromptClearsStopMarker ==
    [][(PromptedAfterStop /\ StopsNext) => StopRecordsNewTurn]_vars

\* C32: handle_user_prompt_submit leaves the marker of the stop hook where
\* it is, so the stop hook that follows it for the session is skipped.
C32_PromptKeepsStopMarker ==
    [][(PromptedAfterStop /\ StopsNext)
        => /\ Exists(host.files, get_marker_file(last.found[1].session_id))
           /\ last'.found[1].marker_existed
           /\ host'.responses = host.responses]_vars

\* Witness of C32: a prompt that created a turn came after a stop hook of
\* the session, and the marker of the stop hook is still there.
C32_Witness ==
    /\ PromptedAfterStop
    /\ last.found[1].turn_id # NoTurn
    /\ Exists(host.files, get_marker_file(last.found[1].session_id))

\* ---------------------------------------------------------------- C33
\* What an update leaves alone in the memory it addresses.
KeptByUpdate(m) ==
    <<m.type, m.tags, m.confidence, m.created_at, m.source_session_id, m.source_turn_id,
      m.superseded_by, m.superseded_at, m.is_active, m.accessed_at, m.access_count>>

\* C33: an update changes only content, scope, project_path and updated_at
\* of the memory it addresses and leaves every other memory as it was; and
\* the updated_at of a stored memory is changed by the update that addresses
\* it and by no other operation, access tracking included.
C33_UpdateFrame ==
    [][/\ last'.op = "update"
          => /\ DOMAIN memories' = DOMAIN memories
             /\ \A i \in DOMAIN memories :
                   IF i = last'.id
                   THEN KeptByUpdate(memories'[i]) = KeptByUpdate(memories[i])
                   ELSE memories'[i] = memories[i]
       /\ \A i \in DOMAIN memories \cap DOMAIN memories' :
             memories'[i].updated_at # memories[i].updated_at
             => last'.op = "update" /\ last'.id = i]_vars

\* Witness of C33: an update has changed the content, the scope and the
\* updated_at of a memory that carries source ids, has been accessed and is
\* retired by supersession, while another memory is stored.
C33_Witness ==
    /\ last.op = "update"
    /\ last.kind = "success"
    /\ memories[last.id].content # pre[last.id].content
    /\ memories[last.id].scope # pre[last.id].scope
    /\ memories[last.id].updated_at # pre[last.id].updated_at
    /\ memories[last.id].source_session_id # NoDbSession
    /\ memories[last.id].access_count > 0
    /\ memories[last.id].superseded_by # NoId
    /\ DOMAIN memories # {last.id}

\* ---------------------------------------------------------------- C34
\* Two stored memories of a table with the same type and the same
\* lowercased first-100-character prefix.
PrefixCollisions(mems) ==
    {pair \in (DOMAIN mems) \X (DOMAIN mems) :
        /\ pair[1] # pair[2]
        /\ mems[pair[1]].type = mems[pair[2]].type
        /\ mems[pair[1]].content \in SamePrefixTable[mems[pair[2]].content]}

\* C34 as claimed: with one writer at a time, after any sequence of adds,
\* updates and deletes no two stored memories have the same type and the
\* same lowercased first-100-character prefix.
C34_NoTwoWithSamePrefix == PrefixCollisions(memories) = {}

\* C34: a step that brings two memories of the same type and prefix into
\* the table is an update (the add that would do so answers duplicate, a
\* delete only removes).
C34_OnlyUpdateCollides ==
    [][~(PrefixCollisions(memories') \subseteq PrefixCollisions(memories))
        => last'.op = "update" /\ last'.kind = "success"]_vars

\* Witness of C34: an update has given a memory a content whose prefix is
\* the prefix of another stored memory of its type, in a table that had no
\* two such memories before it.
C34_Witness ==
    /\ last.op = "update"
    /\ last.kind = "success"
    /\ \E j \in DOMAIN memories : <<last.id, j>> \in PrefixCollisions(memories)
    /\ PrefixCollisions(pre) = {}

\* ---------------------------------------------------------------- C35
\* The in-scope pairs (a, b), a before b, of duplicates in the table before
\* the last command.
PairsBefore == {pair \in (DOMAIN pre) \X (DOMAIN pre) : pair[1] < pair[2] /\ DuplicatePair(pair[1], pair[2])}

\* C35 as claimed: the id list of a consolidate holds each deleted memory
\* exactly once, and `removed` is the number of memories that left the
\* table, whatever the size of the duplicate groups.
C35_IdsOncePerDeleted ==
    Consolidated =>
        /\ BagToSet(last.duplicate_ids) = Deleted
        /\ \A i \in Deleted : CopiesIn(i, last.duplicate_ids) = 1
        /\ last.count = Cardinality(Deleted)

\* C35: the id list of a consolidate holds each deleted memory once for
\* every earlier duplicate of it, and `removed` is the length of that list:
\* the number of duplicate pairs.  List and count are those of the deleted
\* memories exactly when no deleted memory had two earlier duplicates.
C35_IdsOncePerPair ==
    Consolidated =>
        /\ BagToSet(last.duplicate_ids) = Deleted
        /\ \A i \in Deleted :
              CopiesIn(i, last.duplicate_ids) = Cardinality({pair \in PairsBefore : pair[2] = i})
        /\ last.count = Cardinality(PairsBefore)
        /\ last.count >= Cardinality(Deleted)
        /\ (last.count = Cardinality(Deleted))
           <=> (\A i \in Deleted : Cardinality({pair \in PairsBefore : pair[2] = i}) = 1)

\* Witness of C35: a consolidate of a group of three returned three ids, one
\* of them twice, and two memories left the table.
C35_Witness ==
    /\ Consolidated
    /\ last.count = 3
    /\ Cardinality(Deleted) = 2
    /\ \E i \in Deleted : CopiesIn(i, last.duplicate_ids) = 2

\* ---------------------------------------------------------------- C36
\* The searches that track access.
TrackingSearches == {"search_keyword", "search_by_type", "get_context"}

\* C36: a memory that a search_keyword, search_by_type or get_context call
\* returns has an access_count above 0 when the call is over; the
\* access_count of a stored memory never goes down; and a tiered prune
\* deletes no memory whose access_count is above 0, whatever its age and
\* the thresholds.  So a memory once returned by a tracking search is
\* deleted by no later prune.
C36_AccessedIsNeverPruned ==
    [][/\ last'.op \in TrackingSearches
          => \A k \in 1..Len(last'.ids) :
                /\ last'.ids[k] \in DOMAIN memories'
                /\ memories'[last'.ids[k]].access_count > 0
       /\ \A i \in DOMAIN memories :
             /\ i \in DOMAIN memories' => memories'[i].access_count >= memories[i].access_count
             /\ (memories[i].access_count > 0 /\ last'.op = "prune") => i \in DOMAIN memories']_vars

\* Witness of C36: a prune with no threshold at all ran over a low
\* confidence memory that had been returned by a search, rewritten and had
\* aged, deleted another memory, and left that one in the table.
C36_Witness ==
    /\ last.op = "prune"
    /\ last.low_days < 0
    /\ last.count > 0
    /\ \E i \in DOMAIN memories :
          /\ memories[i].confidence = "low"
          /\ memories[i].access_count > 0
          /\ memories[i].created_at < last.at
          /\ memories[i].updated_at > memories[i].created_at
          /\ PruneWhere([memories[i] EXCEPT !.access_count = 0], "low", last.low_days,
                        tier_to_filter(last.tier), last.path)

\* ---------------------------------------------------------------- C37
\* The stored memories of a table whose superseded_by names no stored memory.
Dangling(mems) == {i \in DOMAIN mems : mems[i].superseded_by # NoId /\ mems[i].superseded_by \notin DOMAIN mems}

\* C37 as claimed: the superseded_by of every stored memory names a stored
\* memory, and show_chain of a superseded memory has a successor.
C37_ChainIntegrity ==
    \A i \in DOMAIN memories :
        memories[i].superseded_by # NoId
        => /\ memories[i].superseded_by \in DOMAIN memories
           /\ show_chain(memories, i).successors # {}

\* C37: a superseded_by that names no stored memory comes from a step that
\* deletes memories (delete, consolidate, prune, purge), which removed the
\* replacement and left the reference to it; show_chain of a memory in that
\* state has no successor.  No other step leaves one.
C37_OnlyDeletionsOrphan ==
    [][/\ ~(Dangling(memories') \subseteq Dangling(memories))
          => /\ last'.op \in {"delete", "consolidate", "prune", "purge"}
             /\ \A i \in Dangling(memories') \ Dangling(memories) :
                   /\ i \in DOMAIN memories
                   /\ memories[i].superseded_by \in DOMAIN memories \ DOMAIN memories'
       /\ \A i \in Dangling(memories') : show_chain(memories', i).successors = {}]_vars

\* Witness of C37: a delete answered success for the replacement of a
\* stored memory, whose show_chain has no successor now.
C37_Witness ==
    /\ last.op = "delete"
    /\ last.kind = "success"
    /\ \E i \in DOMAIN memories :
          /\ memories[i].superseded_by = last.id
          /\ ~memories[i].is_active
          /\ show_chain(memories, i).successors = {}

\* ---------------------------------------------------------------- C38
\* The callers whose stop hook for a session went past the marker check.
PassedMarkerCheck(session_id) ==
    {p \in Callers : /\ calls[p].op = "stop"
                     /\ calls[p].read[1] = session_id
                     /\ calls[p].kind # "skipped"}

\* C38 as claimed: of the stop hooks that run at once for a session that
\* has no marker, at most one goes past the marker check.
C38_OnePassesMarkerCheck ==
    \A p \in Callers :
        calls[p].op = "stop" => Cardinality(PassedMarkerCheck(calls[p].read[1])) <= 1

\* C38: a stop hook goes past the marker check exactly when there is no
\* marker at the moment of the check; a hook that checks after the marker of
\* its session was written is skipped, and one that checks before is not,
\* whatever the other hook has passed by then.
C38_PassesIffNoMarkerYet ==
    [][\A p \in Callers :
          (calls[p].pc = "idle" /\ calls'[p].op = "stop" /\ calls'[p].pc # "idle")
          => (calls'[p].kind = "skipped"
              <=> Exists(host.files, get_marker_file(claude_session_id(calls'[p].read[1]))))]_vars

\* Witness of C38: two stop hooks of one session, with the same transcript
\* and turn, have both updated the turn and spawned the extraction.
C38_Witness ==
    /\ calls["c1"].op = "stop" /\ calls["c2"].op = "stop"
    /\ calls["c1"].kind = "processed" /\ calls["c2"].kind = "processed"
    /\ calls["c1"].read = calls["c2"].read
    /\ calls["c1"].read[3] # NoTurn
    /\ Exists(host.files, get_marker_file(claude_session_id(calls["c1"].read[1])))

\* ---------------------------------------------------------------- C39
\* The database sessions of a Claude session.
OwnSessions(session) == find_session_by_claude_id(host.sessions, session)

\* The turn is a turn of the Claude session.
OwnTurn(turn_id, session) ==
    turn_id \in DOMAIN host.turns /\ host.turns[turn_id].session_id \in OwnSessions(session)

\* The stop hook and the tool hook, when they last ran, attached what they
\* wrote to the database session and the turn of the session of their input.
AttachedToOwnSession ==
    /\ (last.op = "stop" /\ last.found[1].updated_turn)
       => OwnTurn(last.found[1].turn_id, last.found[1].session_id)
    /\ last.op = "post_tool_use"
       => LET row == host.tool_calls[Len(host.tool_calls)]
          IN  /\ row.session_id # NoDbSession => row.session_id \in OwnSessions(last.found[1].session_id)
              /\ row.turn_id # NoTurn => OwnTurn(row.turn_id, last.found[1].session_id)

\* C39 as claimed: load_session_state(Some(id)) returns nothing or a state
\* saved for that id, and the stop hook and the tool hook attach what they
\* write to the database session and turn of the session of their input.
C39_SessionStateIsolated ==
    /\ \A session \in SessionsSessions :
          load_session_state(host.files, session).some
          => load_session_state(host.files, session).claude_session_id = session
    /\ AttachedToOwnSession

\* C39: the state file of a session holds a state saved for that session,
\* and a session that has its file gets that state; a session without one
\* gets the state of the legacy file, which is the state saved last, by
\* whichever session.  The hooks of a session that had its file when they
\* ran attached to its own database session and turn.
C39_IsolatedWithOwnFile ==
    /\ \A session \in SessionsSessions :
          IF Exists(host.files, get_session_state_path(session))
          THEN /\ host.files[get_session_state_path(session)].claude_session_id = session
               /\ load_session_state(host.files, session) = host.files[get_session_state_path(session)]
          ELSE load_session_state(host.files, session)
                 = IF Exists(host.files, LegacySessionStatePath)
                   THEN host.files[LegacySessionStatePath] ELSE NoState
    /\ (/\ last.op \in {"stop", "post_tool_use"}
        /\ Exists(last.found[1].before.files, get_session_state_path(last.found[1].session_id)))
       => AttachedToOwnSession

\* Witness of C39: the tool hook of a session that has no state file of its
\* own recorded the call under the database session and the turn of the
\* other session, which is still active.
C39_Witness ==
    /\ last.op = "post_tool_use"
    /\ ~Exists(host.files, get_session_state_path(last.found[1].session_id))
    /\ LET row == host.tool_calls[Len(host.tool_calls)]
       IN  /\ row.session_id \in DOMAIN host.sessions
           /\ host.sessions[row.session_id].claude_session_id # last.found[1].session_id
           /\ host.sessions[row.session_id].status = "active"
           /\ row.turn_id # NoTurn
           /\ ~OwnTurn(row.turn_id, last.found[1].session_id)


\* ---- get-stats ----

StatsReturned == last.op = "get_stats" /\ last.kind = "success"

\* The memories the scope mode of the last get-stats selects from the table
\* it read, by the three-way scope filter of the searches.
StatsInScope ==
    LET f == tier_to_scope_filter(last.tier)
    IN  {i \in DOMAIN pre : StatsWhere_bound(pre[i], f[1], last.path, f[2])}

SumByType(stats) ==
    stats.by_type["convention"] + stats.by_type["architecture"] + stats.by_type["gotcha"]
        + stats.by_type["api"] + stats.by_type["learning"] + stats.by_type["preference"]

SumByConfidence(stats) ==
    stats.by_confidence["high"] + stats.by_confidence["medium"] + stats.by_confidence["low"]

StatsAgree ==
    LET stats == last.found[1]
    IN  /\ stats.total = SumByType(stats)
        /\ stats.total = SumByConfidence(stats)
        /\ stats.total = stats.by_scope["project"] + stats.by_scope["global"]
        /\ stats.total = Cardinality(StatsInScope)
        /\ \A t \in MemoryTypes :
               stats.by_type[t] = Cardinality({i \in StatsInScope : pre[i].type = t})
        /\ \A c \in Confidences :
               stats.by_confidence[c] =
                   Cardinality({i \in StatsInScope : pre[i].confidence = c})
        /\ \A sc \in Scopes :
               stats.by_scope[sc] = Cardinality({i \in StatsInScope : pre[i].scope = sc})
        /\ last.tier = "global" => stats.by_scope["project"] = 0
        /\ last.tier = "project" => stats.by_scope["global"] = 0

\* C40 as stated: in every scope mode the result of get_stats has
\* total = sum of the six by-type counts = sum of the three by-confidence
\* counts = by_scope.project + by_scope.global, every count is the number of
\* in-scope memories with that value, and the global filter gives
\* by_scope.project = 0 and the project filter by_scope.global = 0.
C40_StatsCountsAgree == StatsReturned => StatsAgree

\* C40: the result of get_stats has these properties whenever the project
\* path holds no apostrophe; with any path the total equals each of the
\* three sums.
C40_StatsCountsAgreeWithoutApostrophe ==
    StatsReturned =>
        LET stats == last.found[1]
        IN  /\ stats.total = SumByType(stats)
            /\ stats.total = SumByConfidence(stats)
            /\ stats.total = stats.by_scope["project"] + stats.by_scope["global"]
            /\ Len(StatsPath(last.path)) = 1 => StatsAgree

\* get-stats with the project filter counted one memory of the project, in
\* a table that also holds a memory out of its scope.
C40_Witness ==
    /\ StatsReturned
    /\ last.tier = "project"
    /\ last.path = "/p1"
    /\ last.found[1].total = 1
    /\ last.found[1].by_type["gotcha"] = 1
    /\ last.found[1].by_type["learning"] = 0
    /\ Cardinality(DOMAIN pre) = 2

====
